---- MODULE Spec2Model ----
(***************************************************************************)
(* A model of the ReefMind telemetry synthesis and assessment code:        *)
(*   - the parameter range tables and assessParameter (the classifier),    *)
(*   - the narrative generators generateReadings (Apex simulator) and      *)
(*     initializeSimulatorData (simulator API),                            *)
(*   - the simulator API routes over the in-memory store simulatorData,    *)
(*   - the production route POST /api/tanks/:tankId/analyze,               *)
(*   - the desktop app: the Electron main process, its windows and tray,   *)
(*   - the Apex Fusion client and the requests it sends.                   *)
(*                                                                         *)
(* Numbers.  Band endpoints and classified values are fixed-point          *)
(* integers in thousandths of the parameter's unit (8.3 is 8300, 1.025 sg  *)
(* is 1025).  The generators compute in units of 1/300000 (Unit), in which *)
(* every target, noise term and rounding step of the code is an integer.   *)
(*                                                                         *)
(* Time.  A time is [d, ms]: whole days and the millisecond of the day, so *)
(* that 30 days of milliseconds fit TLC's integers.  An ISO timestamp      *)
(* carries milliseconds, so toISOString and new Date(..).getTime() keep    *)
(* exactly this value.                                                     *)
(***************************************************************************)
EXTENDS Integers, Sequences, FiniteSets, TLC

VARIABLES
    table,      \* classifier: which module's PARAM_RANGES is in scope
    param,      \* classifier: the parameter name passed to assessParameter
    value,      \* classifier: the value passed, in thousandths
    tier,       \* classifier: "pending" before the call, then its outcome
    now,        \* the wall clock, Date.now()
    program,    \* which program the process runs
    days,       \* Apex simulator: the argument of generateReadings
    allReadings, \* Apex simulator: the output of each run of generateReadings
    simReadings, \* simulator API: simulatorData.readings
    simEvents,  \* simulator API: simulatorData.events
    response,   \* the response to the request handled last: [route, status, body]
    requests,   \* the number of requests handled so far
    query,      \* req.query.days of the request handled last, "none" without
    genAI,      \* server: whether GOOGLE_API_KEY configured the AI client
    dbTank,     \* server: whether the addressed tank document exists
    dbReadings, \* server: the tank's readings collection
    dbEvents,   \* server: the tank's events collection
    dbAnalyses, \* server: the tank's analyses collection
    appState,   \* desktop: how far the Electron main process has come
    settings,   \* desktop: the settings object of the main process
    envMode,    \* desktop: process.env.REEFMIND_MODE
    serverMode, \* desktop: the mode the embedded server was loaded in
    mainWindow, \* desktop: the mainWindow reference, 0 for null
    openWindows, \* desktop: the BrowserWindows that exist
    visibleWindows, \* desktop: those of them that are shown
    pendingShow, \* desktop: windows whose 'ready-to-show' has not fired yet
    windowsCreated, \* desktop: how many BrowserWindows were constructed
    tray,       \* desktop: the ReefTray object, or NoTray
    listening,  \* desktop: the embedded server's port: "no", "yes" or "failed"
    fusionLog,  \* Apex Fusion: the HTTP requests sent, oldest first
    fusionResult, \* Apex Fusion: what the last call of the module returned
    users,      \* accounts: the Firestore users collection
    calls,      \* accounts: the asynchronous calls started, oldest first
    usage,      \* accounts: the user's row of the SQLite users table
    tankFusion, \* accounts: the Fusion fields stored on the tank document
    fusionIssued \* accounts: the token authenticateFusion returned last

classifierVars == <<table, param, value, tier>>

generatorVars == <<now, program, days, allReadings>>

simulatorVars == <<simReadings, simEvents>>

requestVars == <<response, requests, query>>

serverVars == <<genAI, dbTank, dbReadings, dbEvents, dbAnalyses>>

desktopVars ==
    <<appState, settings, envMode, serverMode, mainWindow, openWindows,
      visibleWindows, pendingShow, windowsCreated, tray, listening>>

fusionVars == <<fusionLog, fusionResult>>

accountVars == <<users, calls, usage, tankFusion, fusionIssued>>

\* What the analysis code, the generators and the API routes never touch.
peripheralVars == <<desktopVars, fusionVars, accountVars>>

vars ==
    <<table, param, value, tier, now, program, days, allReadings,
      simReadings, simEvents, response, requests, query,
      genAI, dbTank, dbReadings, dbEvents, dbAnalyses,
      appState, settings, envMode, serverMode, mainWindow, openWindows,
      visibleWindows, pendingShow, windowsCreated, tray, listening,
      fusionLog, fusionResult, users, calls, usage, tankFusion, fusionIssued>>

(***************************************************************************)
(* Range tables.  One PARAM_RANGES per analysis module.                    *)
(***************************************************************************)

Band(lo, hi) == <<lo, hi>>

Ranges(o, w, c) == [optimal |-> o, watch |-> w, critical |-> c]

\* src/server/lib/firestore.js (the Vertex AI analysis module)
PARAM_RANGES ==
    [pH       |-> Ranges(Band(8000, 8300), Band(7800, 8500), Band(7600, 8700)),
     temp     |-> Ranges(Band(76000, 79000), Band(75000, 80000), Band(73000, 82000)),
     alk      |-> Ranges(Band(7500, 9000), Band(7000, 10000), Band(6000, 12000)),
     ca       |-> Ranges(Band(400000, 450000), Band(380000, 480000), Band(350000, 520000)),
     mg       |-> Ranges(Band(1300000, 1400000), Band(1250000, 1450000), Band(1200000, 1500000)),
     no3      |-> Ranges(Band(2000, 10000), Band(1000, 15000), Band(0, 25000)),
     po4      |-> Ranges(Band(30, 100), Band(20, 150), Band(0, 300)),
     orp      |-> Ranges(Band(300000, 400000), Band(250000, 420000), Band(200000, 450000)),
     salinity |-> Ranges(Band(1025, 1026), Band(1024, 1027), Band(1020, 1030))]

\* src/unnamed/part_003 (the Gemini analysis module): the same bands
PARAM_RANGES_gemini ==
    [pH       |-> Ranges(Band(8000, 8300), Band(7800, 8500), Band(7600, 8700)),
     temp     |-> Ranges(Band(76000, 79000), Band(75000, 80000), Band(73000, 82000)),
     alk      |-> Ranges(Band(7500, 9000), Band(7000, 10000), Band(6000, 12000)),
     ca       |-> Ranges(Band(400000, 450000), Band(380000, 480000), Band(350000, 520000)),
     mg       |-> Ranges(Band(1300000, 1400000), Band(1250000, 1450000), Band(1200000, 1500000)),
     no3      |-> Ranges(Band(2000, 10000), Band(1000, 15000), Band(0, 25000)),
     po4      |-> Ranges(Band(30, 100), Band(20, 150), Band(0, 300)),
     orp      |-> Ranges(Band(300000, 400000), Band(250000, 420000), Band(200000, 450000)),
     salinity |-> Ranges(Band(1025, 1026), Band(1024, 1027), Band(1020, 1030))]

\* The mutant of C5: the alk watch band of the library module starts above
\* its optimal band.
PARAM_RANGES_library_unnested ==
    [pH   |-> Ranges(Band(8000, 8300), Band(7800, 8500), Band(7600, 8700)),
     temp |-> Ranges(Band(76000, 79000), Band(75000, 80000), Band(73000, 82000)),
     alk  |-> Ranges(Band(7000, 9000), Band(7500, 10000), Band(5500, 12000)),
     ca   |-> Ranges(Band(400000, 450000), Band(380000, 480000), Band(350000, 520000)),
     mg   |-> Ranges(Band(1300000, 1400000), Band(1250000, 1450000), Band(1200000, 1500000)),
     no3  |-> Ranges(Band(2000, 10000), Band(1000, 15000), Band(0, 25000)),
     po4  |-> Ranges(Band(30, 100), Band(20, 150), Band(0, 300)),
     orp  |-> Ranges(Band(300000, 400000), Band(250000, 420000), Band(200000, 450000)),
     sal  |-> Ranges(Band(34000, 36000), Band(33000, 37000), Band(32000, 38000))]

\* src/unnamed/part_005 (the library-backed analysis module): other alk
\* bands, and "sal" in ppt instead of "salinity" in sg
PARAM_RANGES_library ==
    [pH   |-> Ranges(Band(8000, 8300), Band(7800, 8500), Band(7600, 8700)),
     temp |-> Ranges(Band(76000, 79000), Band(75000, 80000), Band(73000, 82000)),
     alk  |-> Ranges(Band(7000, 9000), Band(6500, 10000), Band(5500, 12000)),
     ca   |-> Ranges(Band(400000, 450000), Band(380000, 480000), Band(350000, 520000)),
     mg   |-> Ranges(Band(1300000, 1400000), Band(1250000, 1450000), Band(1200000, 1500000)),
     no3  |-> Ranges(Band(2000, 10000), Band(1000, 15000), Band(0, 25000)),
     po4  |-> Ranges(Band(30, 100), Band(20, 150), Band(0, 300)),
     orp  |-> Ranges(Band(300000, 400000), Band(250000, 420000), Band(200000, 450000)),
     sal  |-> Ranges(Band(34000, 36000), Band(33000, 37000), Band(32000, 38000))]

Tables == {"firestore", "gemini", "library"}

RangeTable(t) ==
    CASE t = "firestore" -> PARAM_RANGES
      [] t = "gemini"    -> PARAM_RANGES_gemini
      [] t = "library"   -> PARAM_RANGES_library

\* PARAM_RANGES is an object literal: a name that is no own key still
\* resolves through Object.prototype when the prototype defines it.
ObjectPrototypeKeys == {"constructor", "toString", "__proto__"}

\* What the expression PARAM_RANGES[param] evaluates to: the entry of an
\* own key, the inherited member of Object.prototype (truthy, and without
\* an "optimal" property), or undefined.
Lookup(t, p) ==
    IF p \in DOMAIN RangeTable(t) THEN "ranges"
    ELSE IF p \in ObjectPrototypeKeys THEN "inherited"
    ELSE "undefined"

InBand(v, band) == v >= band[1] /\ v <= band[2]

\* The mutant of C1: the watch band is tested before the optimal band.
assessParameter_watchFirst(t, p, v) ==
    IF Lookup(t, p) = "undefined" THEN "unknown"
    ELSE IF Lookup(t, p) = "inherited" THEN "TypeError"
    ELSE LET ranges == RangeTable(t)[p] IN
         IF InBand(v, ranges.watch) THEN "watch"
         ELSE IF InBand(v, ranges.optimal) THEN "optimal"
         ELSE IF InBand(v, ranges.critical) THEN "critical"
         ELSE "danger"

\* The mutant of C2: the comparisons exclude the endpoints.
assessParameter_strict(t, p, v) ==
    IF Lookup(t, p) = "undefined" THEN "unknown"
    ELSE IF Lookup(t, p) = "inherited" THEN "TypeError"
    ELSE LET ranges == RangeTable(t)[p] IN
         IF v > ranges.optimal[1] /\ v < ranges.optimal[2] THEN "optimal"
         ELSE IF v > ranges.watch[1] /\ v < ranges.watch[2] THEN "watch"
         ELSE IF v > ranges.critical[1] /\ v < ranges.critical[2] THEN "critical"
         ELSE "danger"

\* assessParameter(param, value) of module t.  `if (!ranges) return
\* 'unknown'` lets an inherited member through, and reading
\* ranges.optimal[0] of it throws a TypeError.
assessParameter(t, p, v) ==
    IF Lookup(t, p) = "undefined" THEN "unknown"
    ELSE IF Lookup(t, p) = "inherited" THEN "TypeError"
    ELSE LET ranges == RangeTable(t)[p] IN
         IF InBand(v, ranges.optimal) THEN "optimal"
         ELSE IF InBand(v, ranges.watch) THEN "watch"
         ELSE IF InBand(v, ranges.critical) THEN "critical"
         ELSE "danger"

(***************************************************************************)
(* The classifier's inputs.                                                *)
(***************************************************************************)

\* How far around each band endpoint the values are taken (thousandths).
Slack == 1

RegisteredParams == UNION {DOMAIN RangeTable(t) : t \in Tables}

\* Names that are own keys of no table: the simulator's lower-case "ph",
\* a typo, and members of Object.prototype.
UnregisteredParams == {"ph", "kh"} \cup ObjectPrototypeKeys

ParamNames == RegisteredParams \cup UnregisteredParams

Endpoints(r) ==
    {r.optimal[1], r.optimal[2], r.watch[1], r.watch[2],
     r.critical[1], r.critical[2]}

TableEndpoints(t) == UNION {Endpoints(RangeTable(t)[p]) : p \in DOMAIN RangeTable(t)}

AllEndpoints == UNION {TableEndpoints(t) : t \in Tables}

\* classify("alk", 8.5), ("alk", 6.5), ("alk", 13.0)
ScenarioValues == {8500, 6500, 13000}

Values == {e + d : e \in AllEndpoints \cup ScenarioValues, d \in (0 - Slack)..Slack}

InitClassifier ==
    /\ table \in Tables
    /\ param \in ParamNames
    /\ value \in Values
    /\ tier = "pending"

\* One call assessParameter(param, value) in module `table`.
AssessParameter ==
    /\ tier = "pending"
    /\ tier' = assessParameter(table, param, value)
    /\ UNCHANGED <<table, param, value, generatorVars, simulatorVars, requestVars, serverVars>>
    /\ UNCHANGED peripheralVars

(***************************************************************************)
(* Fixed point, time and Math.random.                                      *)
(***************************************************************************)

Unit == 3 * 100000

Tenth == Unit \div 10

Hundredth == Unit \div 100

Thousandth == Unit \div 1000

\* A value of the generators in the thousandths the range tables use.
ToThousandths(x) == x \div Thousandth

\* 24 * 60 * 60 * 1000 (dayMs) and 86400000 (msPerDay)
dayMs == 86400000

msPerDay == 86400000

\* 3600000, the milliseconds of an hour in `r * 4 * 3600000`
hourMs == 3600000

\* The mutant of C7: `now + d * msPerDay` for `now - d * msPerDay`.
TimeSubDays_added(t, n) == [d |-> t.d + n, ms |-> t.ms]

\* now - n * dayMs
TimeSubDays(t, n) == [d |-> t.d - n, ms |-> t.ms]

TimeAddMs(t, m) ==
    LET total == t.ms + m
    IN  [d |-> t.d + (total \div dayMs), ms |-> total % dayMs]

TimeLess(a, b) == a.d < b.d \/ (a.d = b.d /\ a.ms < b.ms)

TimeLeq(a, b) == a = b \/ TimeLess(a, b)

\* seq sorted by timestamp, newest first; equal timestamps keep their order.
RECURSIVE InsertDesc(_, _)
InsertDesc(sorted, x) ==
    IF sorted = <<>> THEN <<x>>
    ELSE IF TimeLess(Head(sorted).timestamp, x.timestamp) THEN <<x>> \o sorted
    ELSE <<Head(sorted)>> \o InsertDesc(Tail(sorted), x)

RECURSIVE SortDescFrom(_, _)
SortDescFrom(seq, sorted) ==
    IF seq = <<>> THEN sorted
    ELSE SortDescFrom(Tail(seq), InsertDesc(sorted, Head(seq)))

SortDesc(seq) == SortDescFrom(seq, <<>>)

\* Math.random() returns n/1000 for a level n: near 0, just below the
\* middle, near 1.
RandLevels == {1, 499, 999}

\* A stream of Math.random() results: every draw returns `base`, except
\* draw number `at` (from 0), which returns `dev`.
Streams(nDraws, devs) ==
    {[base |-> b, at |-> 0, dev |-> b] : b \in RandLevels}
    \cup {[base |-> 499, at |-> k, dev |-> v] : k \in 0..(nDraws - 1), v \in devs}

Random(s, k) == IF k = s.at THEN s.dev ELSE s.base

\* (Math.random() - 0.5) * width, for a width given in units
Noise(n, width) == (n - 500) * (width \div 1000)

\* +x.toFixed(2), +x.toFixed(1) and Math.round(x), for x >= 0: to the
\* nearest multiple, the larger one at a tie.
ToFixed2(x) == ((x + (Hundredth \div 2)) \div Hundredth) * Hundredth

ToFixed1(x) == ((x + (Tenth \div 2)) \div Tenth) * Tenth

MathRound(x) == ((x + (Unit \div 2)) \div Unit) * Unit

\* The mutant of C20: Math.random() * 2 * amount, the noise not centred.
jitter_uncentred(v, amount, n) == ToFixed2(v + n * ((2 * amount) \div 1000))

\* jitter(value, amount): +(value + (Math.random() - 0.5) * 2 * amount).toFixed(2)
jitter(v, amount, n) == ToFixed2(v + Noise(n, 2 * amount))

(***************************************************************************)
(* The Apex simulator's generateReadings(days).                            *)
(***************************************************************************)

\* Math.sin(r * Math.PI / 3) * 0.12, to the nearest unit
SinTerm(r) ==
    CASE r \in {1, 2} -> 31177
      [] r \in {4, 5} -> 0 - 31177
      [] OTHER -> 0

alkBase(d) ==
    IF d > 20 THEN 82 * Tenth
    ELSE IF d > 10 THEN 82 * Tenth - (20 - d) * 8 * Hundredth
    ELSE 74 * Tenth + (10 - d) * 6 * Hundredth

caBase(d) ==
    IF d > 20 THEN 440 * Unit
    ELSE IF d > 10 THEN 440 * Unit + (20 - d) * 3 * Unit
    ELSE 470 * Unit - (10 - d) * 2 * Unit

\* The reading pushed for day d, slot r; `first` is the number of the
\* first of its seven draws.
ApexReading(t0, d, r, s, first) ==
    [timestamp |-> TimeAddMs(TimeSubDays(t0, d), r * 4 * hourMs),
     source    |-> "trident",
     alk  |-> jitter(alkBase(d), 8 * Hundredth, Random(s, first)),
     ca   |-> jitter(caBase(d), 2 * Unit, Random(s, first + 1)),
     mg   |-> jitter(1350 * Unit, 5 * Unit, Random(s, first + 2)),
     ph   |-> jitter(832 * Hundredth + SinTerm(r), 2 * Hundredth, Random(s, first + 3)),
     temp |-> jitter(778 * Tenth, 3 * Tenth, Random(s, first + 4)),
     no3  |-> jitter(IF d > 15 THEN 5 * Unit ELSE 5 * Unit + (15 - d) * 6 * Tenth,
                     3 * Tenth, Random(s, first + 5)),
     po4  |-> jitter(IF d > 15 THEN 4 * Hundredth
                     ELSE 4 * Hundredth + (15 - d) * 5 * Thousandth,
                     5 * Thousandth, Random(s, first + 6))]

\* for (let r = 0; r < 6; r++) readings.push(...)
RECURSIVE slotLoop(_, _, _, _, _)
slotLoop(t0, d, r, s, readings) ==
    IF r < 6
    THEN slotLoop(t0, d, r + 1, s,
                  Append(readings, ApexReading(t0, d, r, s, 7 * Len(readings))))
    ELSE readings

\* for (let d = days; d >= 0; d--) { ... }
RECURSIVE dayLoop(_, _, _, _)
dayLoop(t0, d, s, readings) ==
    IF d >= 0
    THEN dayLoop(t0, d - 1, s, slotLoop(t0, d, 0, s, readings))
    ELSE readings

generateReadings(n, t0, s) == dayLoop(t0, n, s, <<>>)

\* The largest window length the model passes to generateReadings.
MaxDays == 1

\* Math.random() is drawn seven times per reading.
ApexDraws(n) == 7 * 6 * (n + 1)

\* The times of day at which a process may start: midnight, and late
\* enough that the day's later slots fall on the next day.
StartTimes == {[d |-> 0, ms |-> 0], [d |-> 0, ms |-> 18 * hourMs]}

InitGenerator ==
    /\ now \in StartTimes
    /\ program \in {"apex-simulator", "simulator-api"}
    /\ days \in 0..MaxDays
    /\ program = "simulator-api" => days = 0
    /\ allReadings = <<>>

ClassifierIdle ==
    /\ table = "firestore"
    /\ param = "alk"
    /\ value = 0
    /\ tier = "pending"

GeneratorIdle ==
    /\ now = [d |-> 0, ms |-> 0]
    /\ program = "none"
    /\ days = 0
    /\ allReadings = <<>>

\* One start of the Apex simulator: `const allReadings = generateReadings(days)`.
\* The model keeps the outputs of two starts with the same argument; the
\* second start draws from a constant stream.
GenerateReadings ==
    /\ program = "apex-simulator"
    /\ Len(allReadings) < 2
    /\ \E s \in Streams(IF allReadings = <<>> THEN ApexDraws(days) ELSE 0, {999}) :
          allReadings' = Append(allReadings, generateReadings(days, now, s))
    /\ UNCHANGED <<now, program, days, classifierVars, simulatorVars, requestVars, serverVars>>
    /\ UNCHANGED peripheralVars

(***************************************************************************)
(* The simulator API: the store simulatorData and initializeSimulatorData. *)
(***************************************************************************)

\* The alk crash story: the noise-free alkValue and caValue of the reading
\* i days before now.
alkValue(i) ==
    IF i <= 27 /\ i > 15 THEN 82 * Tenth - ((27 - i) * 8 * Tenth) \div 12
    ELSE IF i <= 15 /\ i > 3 THEN 74 * Tenth - ((15 - i) * 4 * Tenth) \div 12
    ELSE IF i <= 3 THEN 70 * Tenth + ((3 - i) * 9 * Tenth) \div 3
    ELSE 82 * Tenth

caValue(i) ==
    IF i <= 27 /\ i > 15 THEN 440 * Unit + ((27 - i) * 30 * Unit) \div 12
    ELSE IF i <= 15 /\ i > 3 THEN 470 * Unit + ((15 - i) * 40 * Unit) \div 12
    ELSE IF i <= 3 THEN 510 * Unit - ((3 - i) * 10 * Unit) \div 3
    ELSE 440 * Unit

\* The reading pushed for i days ago; `first` is the number of the first
\* of its six draws.
NarrativeReading(t0, i, s, first) ==
    [id        |-> <<"sim-reading", TimeSubDays(t0, i)>>,
     source    |-> "trident",
     alk  |-> ToFixed2(alkValue(i) + Noise(Random(s, first), 16 * Hundredth)),
     ca   |-> MathRound(caValue(i) + Noise(Random(s, first + 1), 6 * Unit)),
     mg   |-> MathRound(1350 * Unit + Noise(Random(s, first + 2), 16 * Unit)),
     ph   |-> ToFixed2(825 * Hundredth + Noise(Random(s, first + 3), 3 * Tenth)),
     temp |-> ToFixed1(778 * Tenth + Noise(Random(s, first + 4), 12 * Tenth)),
     orp  |-> MathRound(325 * Unit + Noise(Random(s, first + 5), 20 * Unit)),
     timestamp |-> TimeSubDays(t0, i)]

\* for (let i = 30; i >= 0; i--) simulatorData.readings.push(...)
RECURSIVE narrativeLoop(_, _, _, _)
narrativeLoop(t0, i, s, readings) ==
    IF i >= 0
    THEN narrativeLoop(t0, i - 1, s,
                       Append(readings, NarrativeReading(t0, i, s, 6 * Len(readings))))
    ELSE readings

\* An event id: 'sim-event-<n>' of the narrative, or `sim-event-${Date.now()}`.
LiteralId(n) == [n |-> n, t |-> [d |-> 0, ms |-> 0]]

ClockId(t) == [n |-> 0, t |-> t]

Event(id, type, title, details, date) ==
    [id |-> id, type |-> type, title |-> title, details |-> details,
     date |-> date, source |-> "user-entered"]

\* simulatorData.events = [ ... ]
NarrativeEvents(t0) ==
    <<Event(LiteralId(1), "test", "ICP Test Results",
            "All parameters within range", TimeSubDays(t0, 30)),
      Event(LiteralId(2), "dosing", "Started Ammonium + Urea Dosing",
            "Testing for nitrate reduction", TimeSubDays(t0, 27)),
      Event(LiteralId(3), "maintenance", "Dino Treatment Started",
            "UV sterilizer + blackout period", TimeSubDays(t0, 24)),
      Event(LiteralId(4), "dosing", "A4R Reduced 210 to 160 mL/day",
            "Calcium too high", TimeSubDays(t0, 15)),
      Event(LiteralId(5), "dosing", "Ammonium Pump Stopped",
            "Suspected cause of alk crash", TimeSubDays(t0, 3)),
      Event(LiteralId(6), "dosing", "A4R Increased to 180 mL/day",
            "Correcting alk drop", TimeSubDays(t0, 3))>>

\* initializeSimulatorData(): the store [readings, events] it leaves.
\* `if (simulatorData.readings.length > 0) return;`
initializeSimulatorData(readings, events, t0, s) ==
    IF Len(readings) > 0
    THEN [readings |-> readings, events |-> events]
    ELSE [readings |-> narrativeLoop(t0, 30, s, readings),
          events   |-> NarrativeEvents(t0)]

\* Math.random() is drawn six times per reading of the narrative.
NarrativeDraws == 6 * 31

\* simulator.generateReading(): Date.now() and new Date() read the clock
\* within the same call.
generateReading(t0, s) ==
    [id        |-> <<"sim-reading", t0>>,
     source    |-> "trident",
     alk  |-> jitter(81 * Tenth, 8 * Hundredth, Random(s, 0)),
     ca   |-> jitter(438 * Unit, 3 * Unit, Random(s, 1)),
     mg   |-> jitter(1350 * Unit, 8 * Unit, Random(s, 2)),
     ph   |-> jitter(832 * Hundredth, 2 * Hundredth, Random(s, 3)),
     temp |-> jitter(778 * Tenth, 3 * Tenth, Random(s, 4)),
     orp  |-> jitter(325 * Unit, 5 * Unit, Random(s, 5)),
     timestamp |-> t0]

\* array.unshift(x)
Unshift(seq, x) == <<x>> \o seq

\* The mock analysis of POST /tanks/:tankId/analyze.
MockAnalysis(t0) ==
    [id         |-> <<"sim-analysis", t0>>,
     type       |-> "user-requested",
     date       |-> t0,
     diagnosis  |-> "Alkalinity crash likely caused by nitrification",
     confidence |-> 95,
     severity   |-> "high",
     recommendations |->
        <<"Stop ammonium dosing immediately",
          "Increase All-For-Reef to 180-200 mL/day to restore alk",
          "Monitor alk every 12 hours for next 48 hours",
          "Once alk stabilizes above 7.5, resume normal dosing schedule">>,
     citations  |-> <<"Randy Holmes-Farley">>]

Response(route, status, body) == [route |-> route, status |-> status, body |-> body]

NoResponse == Response("none", 0, "none")

\* The most requests the model lets one server process handle.
MaxRequests == 3

\* The most requests the model lets one simulator API process handle.
MaxSimulatorRequests == 2

\* The Math.random() streams of a request to the running simulator API.
ConstantStreams == Streams(0, {})

InitSimulator ==
    /\ now = [d |-> 0, ms |-> 0]
    /\ program = "simulator-api"
    /\ days = 0
    /\ allReadings = <<>>
    /\ simReadings = <<>>
    /\ simEvents = <<>>
    /\ response = NoResponse
    /\ requests = 0
    /\ query = "none"

SimulatorIdle ==
    /\ simReadings = <<>>
    /\ simEvents = <<>>
    /\ response = NoResponse
    /\ requests = 0
    /\ query = "none"

ServerIdle ==
    /\ genAI = FALSE
    /\ dbTank = FALSE
    /\ dbReadings = <<>>
    /\ dbEvents = <<>>
    /\ dbAnalyses = <<>>

\* One more request is handled by program p.
HandlingIn(p, most) ==
    /\ program = p
    /\ requests < most
    /\ requests' = requests + 1
    /\ UNCHANGED <<now, program, days, allReadings, classifierVars, peripheralVars>>

Handling == HandlingIn("simulator-api", MaxSimulatorRequests) /\ UNCHANGED serverVars

\* router.get('/tanks') and router.get('/tanks/:tankId'): both initialise
\* and answer with the tank.
GetTanks(streams) ==
    /\ Handling
    /\ query' = "none"
    /\ \E s \in streams :
          LET store == initializeSimulatorData(simReadings, simEvents, now, s)
          IN  /\ simReadings' = store.readings
              /\ simEvents' = store.events
    /\ response' = Response("GET /tanks", 200, "tank")

\* The `days` of the query string of GET /readings: absent, "7", "0".
QueryDays == {"undefined", "7", "0"}

\* parseInt(req.query.days), with 0 - 1 for NaN
parseInt(q) ==
    CASE q = "7" -> 7
      [] q = "0" -> 0
      [] OTHER -> 0 - 1

\* parseInt(req.query.days) || 30: NaN and 0 are falsy
windowDays(q) == IF parseInt(q) = 0 - 1 \/ parseInt(q) = 0 THEN 30 ELSE parseInt(q)

\* readings.filter(r => timestamp >= cutoff).sort(newest first), where
\* cutoff = Date.now() - days * 24 * 60 * 60 * 1000
filterReadings(readings, t0, n) ==
    SortDesc(SelectSeq(readings, LAMBDA r : TimeLeq(TimeSubDays(t0, n), r.timestamp)))

\* router.get('/tanks/:tankId/readings'): the clock may advance by a
\* millisecond between initialisation and the computation of the cutoff.
GetReadings(streams) ==
    /\ Handling
    /\ \E s \in streams, q \in QueryDays, elapsed \in {0, 1} :
          LET store == initializeSimulatorData(simReadings, simEvents, now, s)
          IN  /\ simReadings' = store.readings
              /\ simEvents' = store.events
              /\ query' = q
              /\ response' = Response("GET /readings", 200,
                     filterReadings(store.readings, TimeAddMs(now, elapsed), windowDays(q)))

\* router.post('/tanks/:tankId/readings')
PostReadings(streams) ==
    /\ Handling
    /\ query' = "none"
    /\ \E s \in streams :
          LET reading == generateReading(now, s)
          IN  /\ simReadings' = Unshift(simReadings, reading)
              /\ response' = Response("POST /readings", 200, reading)
    /\ UNCHANGED simEvents

\* router.get('/tanks/:tankId/events')
GetEvents(streams) ==
    /\ Handling
    /\ query' = "none"
    /\ \E s \in streams :
          LET store == initializeSimulatorData(simReadings, simEvents, now, s)
          IN  /\ simReadings' = store.readings
              /\ simEvents' = store.events
              /\ response' = Response("GET /events", 200, store.events)

\* The request bodies of POST /events: with and without details.
EventBodies ==
    {[type |-> "maintenance", title |-> "Water change", details |-> "20 percent"],
     [type |-> "dosing", title |-> "Kalk raised", details |-> "undefined"]}

\* router.post('/tanks/:tankId/events')
PostEvents ==
    /\ Handling
    /\ query' = "none"
    /\ \E body \in EventBodies :
          LET event == Event(ClockId(now), body.type, body.title,
                             IF body.details = "undefined" THEN "" ELSE body.details,
                             now)
          IN  /\ simEvents' = Unshift(simEvents, event)
              /\ response' = Response("POST /events", 200, event)
    /\ UNCHANGED simReadings

\* router.get('/tanks/:tankId/sync')
GetSync(streams) ==
    /\ Handling
    /\ query' = "none"
    /\ \E s \in streams :
          LET reading == generateReading(now, s)
          IN  /\ simReadings' = Unshift(simReadings, reading)
              /\ response' = Response("GET /sync", 200, reading)
    /\ UNCHANGED simEvents

\* The mutant of C22: the analyze route initialises the store first, as
\* the GET routes do.
PostAnalyze_initialising ==
    /\ Handling
    /\ query' = "none"
    /\ \E s \in ConstantStreams :
          LET store == initializeSimulatorData(simReadings, simEvents, now, s)
          IN  /\ simReadings' = store.readings
              /\ simEvents' = store.events
    /\ response' = Response("POST /analyze", 200, [analysis |-> MockAnalysis(now)])

\* router.post('/tanks/:tankId/analyze'): the mock analysis, whatever the
\* store holds.
PostAnalyze ==
    /\ Handling
    /\ query' = "none"
    /\ response' = Response("POST /analyze", 200, [analysis |-> MockAnalysis(now)])
    /\ UNCHANGED <<simReadings, simEvents>>

\* How far the model lets the clock run: in days, and in milliseconds
\* past the hour.
MaxClockDays == 1

MaxClockMs == 1

\* Time passes between requests: a millisecond, or a day.
Tick ==
    /\ program \in {"simulator-api", "server"}
    /\ \/ /\ now.ms % hourMs < MaxClockMs
          /\ now' = TimeAddMs(now, 1)
       \/ /\ now.d < MaxClockDays
          /\ now' = [d |-> now.d + 1, ms |-> now.ms]
    /\ UNCHANGED <<program, days, allReadings, classifierVars, simulatorVars,
                   requestVars, serverVars, peripheralVars>>

(***************************************************************************)
(* The server's production routes over Firestore.                          *)
(***************************************************************************)

\* The Authorization headers of a request.
AuthHeaders == {"absent", "Bearer valid", "Bearer expired"}

\* requireAuth: "next" when the header holds a Bearer token verifyToken
\* accepts, else the status of the error response it sends.
requireAuth(header) ==
    IF header = "absent" THEN 401
    ELSE IF header = "Bearer valid" THEN 0
    ELSE 401

\* The bodies of POST /api/tanks/:tankId/readings, as Object.entries
\* lists them: none, all optimal, alkalinity critical, and a key that
\* Object.prototype also defines.
ReadingBodies ==
    {<<>>,
     <<<<"alk", 8200>>, <<"ca", 420000>>, <<"pH", 8100>>>>,
     <<<<"alk", 6500>>, <<"ca", 420000>>>>,
     <<<<"constructor", 5000>>>>}


\* getReadings(userId, tankId, daysBack): timestamp >= now - daysBack days,
\* ordered by timestamp, newest first.
getReadings(readings, t0, daysBack) ==
    SortDesc(SelectSeq(readings, LAMBDA r : TimeLeq(TimeSubDays(t0, daysBack), r.timestamp)))

\* What the language model may answer: nothing (the call fails), text that
\* is no JSON, or an assessment.
LlmAnswers ==
    {[kind |-> "error", summary |-> "", confidence |-> 0],
     [kind |-> "text", summary |-> "", confidence |-> 0],
     [kind |-> "json", summary |-> "All parameters within range", confidence |-> 950],
     [kind |-> "json", summary |-> "Alkalinity is low", confidence |-> 800]}

\* buildAnalysisPrompt assesses every entry of the current reading, and
\* throws when assessParameter does.
PromptThrows(current) ==
    \E k \in 1..Len(current.params) :
        assessParameter("gemini", current.params[k][1], current.params[k][2]) = "TypeError"

\* analyzeTank(tank, currentReadings, ...): "throw" without an AI client,
\* else {ok: false, error} or {ok: true, analysis}.
analyzeTank(ai, current, answer) ==
    IF ~ai THEN [kind |-> "throw", error |-> "Google AI not configured", analysis |-> answer]
    ELSE IF PromptThrows(current)
         THEN [kind |-> "failed", error |-> "Cannot read properties of undefined",
               analysis |-> answer]
    ELSE IF answer.kind = "error"
         THEN [kind |-> "failed", error |-> "AI analysis failed", analysis |-> answer]
    ELSE IF answer.kind = "text"
         THEN [kind |-> "failed", error |-> "AI returned invalid response format",
               analysis |-> answer]
    ELSE [kind |-> "ok", error |-> "", analysis |-> answer]

ErrorBody(message) == [error |-> message]

InitServer ==
    /\ now \in StartTimes
    /\ program = "server"
    /\ days = 0
    /\ allReadings = <<>>
    /\ response = NoResponse
    /\ requests = 0
    /\ query = "none"
    /\ genAI \in BOOLEAN
    /\ dbTank = FALSE
    /\ dbReadings = <<>>
    /\ dbEvents = <<>>
    /\ dbAnalyses = <<>>

ServerHandling ==
    /\ HandlingIn("server", MaxRequests)
    /\ query' = "none"
    /\ UNCHANGED <<simulatorVars, genAI>>

\* app.post('/api/tanks', requireAuth, ...): creates the tank.
ServerPostTanks ==
    /\ ServerHandling
    /\ \E header \in AuthHeaders :
          IF requireAuth(header) # 0
          THEN /\ response' = Response("POST /api/tanks", requireAuth(header),
                                       ErrorBody("Authorization token required"))
               /\ UNCHANGED dbTank
          ELSE /\ response' = Response("POST /api/tanks", 200, "tank")
               /\ dbTank' = TRUE
    /\ UNCHANGED <<dbReadings, dbEvents, dbAnalyses>>

\* app.post('/api/tanks/:tankId/readings', requireAuth, ...)
ServerPostReadings ==
    /\ ServerHandling
    /\ \E header \in AuthHeaders, body \in ReadingBodies :
          IF requireAuth(header) # 0
          THEN /\ response' = Response("POST /api/readings", requireAuth(header),
                                       ErrorBody("Authorization token required"))
               /\ UNCHANGED dbReadings
          ELSE IF Len(body) = 0
          THEN /\ response' = Response("POST /api/readings", 400,
                                       ErrorBody("Reading data required"))
               /\ UNCHANGED dbReadings
          ELSE LET reading == [id |-> Len(dbReadings) + 1, timestamp |-> now,
                               source |-> "manual", params |-> body]
               IN  /\ dbReadings' = Append(dbReadings, reading)
                   /\ response' = Response("POST /api/readings", 200, reading)
    /\ UNCHANGED <<dbTank, dbEvents, dbAnalyses>>

\* app.post('/api/tanks/:tankId/events', requireAuth, ...)
ServerPostEvents ==
    /\ ServerHandling
    /\ \E header \in AuthHeaders, body \in EventBodies :
          IF requireAuth(header) # 0
          THEN /\ response' = Response("POST /api/events", requireAuth(header),
                                       ErrorBody("Authorization token required"))
               /\ UNCHANGED dbEvents
          ELSE LET event == Event(LiteralId(Len(dbEvents) + 1), body.type, body.title,
                                  IF body.details = "undefined" THEN "" ELSE body.details,
                                  now)
               IN  /\ dbEvents' = Append(dbEvents, event)
                   /\ response' = Response("POST /api/events", 200, event)
    /\ UNCHANGED <<dbTank, dbReadings, dbAnalyses>>

\* app.post('/api/tanks/:tankId/analyze', requireAuth, ...)
ServerPostAnalyze ==
    /\ ServerHandling
    /\ \E header \in AuthHeaders, answer \in LlmAnswers :
          LET recentReadings == getReadings(dbReadings, now, 7)
              result == analyzeTank(genAI, recentReadings[1], answer)
              reply(status, body) ==
                  /\ response' = Response("POST /api/analyze", status, body)
                  /\ UNCHANGED dbAnalyses
          IN  IF requireAuth(header) # 0
              THEN reply(requireAuth(header), ErrorBody("Authorization token required"))
              ELSE IF ~dbTank
              THEN reply(404, ErrorBody("Tank not found"))
              ELSE IF Len(recentReadings) = 0
              THEN reply(400, ErrorBody("No readings available. Add readings first."))
              ELSE IF result.kind = "throw"
              THEN reply(500, ErrorBody("AI analysis failed"))
              ELSE IF result.kind = "failed"
              THEN reply(500, ErrorBody(result.error))
              ELSE LET analysis ==
                           [id |-> Len(dbAnalyses) + 1,
                            type |-> "user-requested",
                            summary |-> result.analysis.summary,
                            confidence |-> result.analysis.confidence,
                            readingCount |-> Len(recentReadings)]
                   IN  /\ dbAnalyses' = Append(dbAnalyses, analysis)
                       /\ response' = Response("POST /api/analyze", 200,
                                               [analysis |-> analysis])
    /\ UNCHANGED <<dbTank, dbReadings, dbEvents>>

(***************************************************************************)
(* The desktop app: the Electron main process and its tray.                *)
(***************************************************************************)

DataSources == {"simulator", "fusion", "local"}

\* settings.dataSource === 'simulator' ? 'simulator' : 'production'
ModeOf(dataSource) == IF dataSource = "simulator" THEN "simulator" ELSE "production"

\* { ...settings, ...newSettings }, for the dataSource key
MergeSettings(old, new) ==
    IF new.dataSource = "undefined" THEN old ELSE [old EXCEPT !.dataSource = new.dataSource]

\* What settings.json may hold at start-up, and what 'update-settings'
\* may carry: a data source, or other keys only.
SettingsObjects == {[dataSource |-> d] : d \in DataSources \cup {"undefined"}}

NoTray == [created |-> FALSE, status |-> "none", dataSource |-> "none"]

\* ReefTray.updateStatus(status)
updateStatus(t, status) == [t EXCEPT !.status = status]

\* ReefTray.updateMenu(options): the fields of the tray it leaves
updateMenu(t, options) ==
    LET withSource == IF options.dataSource # "undefined"
                      THEN [t EXCEPT !.dataSource = options.dataSource]
                      ELSE t
    IN  IF options.status # "undefined"
        THEN updateStatus(withSource, options.status)
        ELSE withSource

\* new ReefTray(iconPath)
ReefTray ==
    updateMenu([created |-> TRUE, status |-> "green", dataSource |-> "simulator"],
               [dataSource |-> "undefined", status |-> "undefined"])

\* ReefTray.changeDataSource(source)
changeDataSource(t, source) ==
    updateMenu([t EXCEPT !.dataSource = source],
               [dataSource |-> "undefined", status |-> "undefined"])

\* The most BrowserWindows the model lets one run construct.
MaxWindows == 3

InitDesktop ==
    /\ appState = "launching"
    /\ settings = [dataSource |-> "simulator"]
    /\ envMode = "unset"
    /\ serverMode = "none"
    /\ mainWindow = 0
    /\ openWindows = {}
    /\ visibleWindows = {}
    /\ pendingShow = {}
    /\ windowsCreated = 0
    /\ tray = NoTray
    /\ listening = "no"

DesktopIdle ==
    /\ appState = "off"
    /\ settings = [dataSource |-> "simulator"]
    /\ envMode = "unset"
    /\ serverMode = "none"
    /\ mainWindow = 0
    /\ openWindows = {}
    /\ visibleWindows = {}
    /\ pendingShow = {}
    /\ windowsCreated = 0
    /\ tray = NoTray
    /\ listening = "no"

\* What no handler of the main process touches.
DesktopFrame ==
    UNCHANGED <<classifierVars, generatorVars, simulatorVars, requestVars,
                serverVars, fusionVars, accountVars, listening>>

\* createWindow(): a new BrowserWindow, assigned to mainWindow
createWindow ==
    /\ windowsCreated < MaxWindows
    /\ windowsCreated' = windowsCreated + 1
    /\ mainWindow' = windowsCreated + 1
    /\ openWindows' = openWindows \cup {windowsCreated + 1}
    /\ pendingShow' = pendingShow \cup {windowsCreated + 1}
    /\ UNCHANGED visibleWindows

keepWindows ==
    UNCHANGED <<mainWindow, openWindows, visibleWindows, pendingShow, windowsCreated>>

\* mainWindow.show()
showMainWindow ==
    /\ visibleWindows' = visibleWindows \cup {mainWindow}
    /\ UNCHANGED <<mainWindow, openWindows, pendingShow, windowsCreated>>

\* app.whenReady().then(...), up to `await startServer()`: loadSettings,
\* the environment, and require(server.js), which reads REEFMIND_MODE
\* once, into the constant SIMULATOR_MODE.
WhenReady ==
    /\ appState = "launching"
    /\ \E saved \in SettingsObjects :
          /\ settings' = MergeSettings(settings, saved)
          /\ envMode' = ModeOf(settings'.dataSource)
          /\ serverMode' = IF envMode' = "simulator" THEN "simulator" ELSE "production"
    /\ appState' = "starting-server"
    /\ keepWindows
    /\ UNCHANGED tray
    /\ DesktopFrame

\* What app.listen(PORT, callback) of the required server.js comes to: the
\* port is bound and the callback runs, or binding fails (the port is in
\* use). Nothing in main.js waits for either.
ListenOutcomes == {"yes", "failed"}

ServerListening ==
    /\ appState \in {"starting-server", "running"}
    /\ listening = "no"
    /\ listening' \in ListenOutcomes
    /\ UNCHANGED <<appState, settings, envMode, serverMode, tray>>
    /\ keepWindows
    /\ UNCHANGED <<classifierVars, generatorVars, simulatorVars, requestVars,
                   serverVars, fusionVars, accountVars>>

\* The rest of start-up, after startServer's one-second timer:
\* createWindow(); createTray().
ServerStarted ==
    /\ appState = "starting-server"
    /\ createWindow
    /\ tray' = updateMenu(ReefTray, [dataSource |-> settings.dataSource,
                                     status |-> "healthy"])
    /\ appState' = "running"
    /\ UNCHANGED <<settings, envMode, serverMode>>
    /\ DesktopFrame

\* app.on('activate')
Activate ==
    /\ appState \in {"starting-server", "running"}
    /\ IF mainWindow = 0 THEN createWindow ELSE keepWindows
    /\ UNCHANGED <<appState, settings, envMode, serverMode, tray>>
    /\ DesktopFrame

\* tray.on('click')
TrayClick ==
    /\ appState = "running"
    /\ tray.created
    /\ IF mainWindow # 0
       THEN /\ visibleWindows' = IF mainWindow \in visibleWindows
                                 THEN visibleWindows \ {mainWindow}
                                 ELSE visibleWindows \cup {mainWindow}
            /\ UNCHANGED <<mainWindow, openWindows, pendingShow, windowsCreated>>
       ELSE createWindow
    /\ UNCHANGED <<appState, settings, envMode, serverMode, tray>>
    /\ DesktopFrame

\* ipcMain.handle('show-window'), invoked from a window's renderer
ShowWindow ==
    /\ appState = "running"
    /\ openWindows # {}
    /\ IF mainWindow # 0 THEN showMainWindow ELSE createWindow
    /\ UNCHANGED <<appState, settings, envMode, serverMode, tray>>
    /\ DesktopFrame

\* app.on('second-instance'): restore and focus, no window is created
SecondInstance ==
    /\ appState \in {"starting-server", "running"}
    /\ keepWindows
    /\ UNCHANGED <<appState, settings, envMode, serverMode, tray>>
    /\ DesktopFrame

\* A window is closed: its 'closed' handler sets mainWindow = null,
\* whichever window mainWindow refers to.
WindowClosed ==
    /\ appState \in {"starting-server", "running"}
    /\ \E w \in openWindows :
          /\ openWindows' = openWindows \ {w}
          /\ visibleWindows' = visibleWindows \ {w}
          /\ pendingShow' = pendingShow \ {w}
    /\ mainWindow' = 0
    /\ UNCHANGED <<windowsCreated, appState, settings, envMode, serverMode, tray>>
    /\ DesktopFrame

\* A window's 'ready-to-show' fires: the handler shows mainWindow, and
\* throws when mainWindow is null.
ReadyToShow ==
    /\ appState \in {"starting-server", "running"}
    /\ \E w \in pendingShow :
          /\ pendingShow' = pendingShow \ {w}
          /\ visibleWindows' = IF mainWindow # 0
                               THEN visibleWindows \cup {mainWindow}
                               ELSE visibleWindows
    /\ UNCHANGED <<mainWindow, openWindows, windowsCreated>>
    /\ UNCHANGED <<appState, settings, envMode, serverMode, tray>>
    /\ DesktopFrame

\* The tray menu's 'View Dashboard': shows the first of getAllWindows()
ViewDashboard ==
    /\ appState = "running"
    /\ tray.created
    /\ IF openWindows # {}
       THEN \E w \in openWindows : visibleWindows' = visibleWindows \cup {w}
       ELSE UNCHANGED visibleWindows
    /\ UNCHANGED <<mainWindow, openWindows, pendingShow, windowsCreated>>
    /\ UNCHANGED <<appState, settings, envMode, serverMode, tray>>
    /\ DesktopFrame

\* The tray menu's data source radio items: ReefTray.changeDataSource
ChangeDataSource ==
    /\ appState = "running"
    /\ tray.created
    /\ \E source \in DataSources : tray' = changeDataSource(tray, source)
    /\ keepWindows
    /\ UNCHANGED <<appState, settings, envMode, serverMode>>
    /\ DesktopFrame

\* ipcMain.handle('update-settings'), invoked from a window's renderer
UpdateSettings ==
    /\ appState = "running"
    /\ openWindows # {}
    /\ \E newSettings \in SettingsObjects :
          /\ settings' = MergeSettings(settings, newSettings)
          /\ envMode' = IF newSettings.dataSource # "undefined"
                        THEN ModeOf(newSettings.dataSource)
                        ELSE envMode
    /\ keepWindows
    /\ UNCHANGED <<appState, serverMode, tray>>
    /\ DesktopFrame

\* The tray menu's 'Quit ReefMind': app.quit() closes every window
Quit ==
    /\ appState = "running"
    /\ tray.created
    /\ appState' = "quit"
    /\ openWindows' = {}
    /\ visibleWindows' = {}
    /\ pendingShow' = {}
    /\ mainWindow' = 0
    /\ UNCHANGED <<windowsCreated, settings, envMode, serverMode, tray>>
    /\ DesktopFrame

(***************************************************************************)
(* The Apex Fusion client.                                                 *)
(***************************************************************************)

NoResult == [ok |-> FALSE, error |-> "none"]

FusionIdle ==
    /\ fusionLog = <<>>
    /\ fusionResult = NoResult

\* What a call of the module may be given.
FusionCredentials == {<<"reefer@example.com", "secret">>, <<"reefer@example.com", "wrong">>}

FusionTokens == {"token-1", "token-2"}

FusionIds == {"apex-1", "apex-2"}

\* How the Fusion API may answer: a status with a usable body, a status
\* with a body lacking the expected field, or no answer (fetch rejects).
FusionAnswers ==
    {[status |-> 200, body |-> "data"], [status |-> 200, body |-> "empty"],
     [status |-> 401, body |-> "empty"], [status |-> 500, body |-> "empty"],
     [status |-> 0, body |-> "rejected"]}

\* fetch(url, options): the request sent; the method defaults to GET.
fetchRequest(path, options) ==
    [method |-> IF options.method = "undefined" THEN "GET" ELSE options.method,
     path   |-> path,
     authorization |-> options.authorization,
     body   |-> options.body]

\* fetch(`${FUSION_API_BASE}/login`, { method: 'POST', body: {email, password} })
loginRequest(credentials) ==
    fetchRequest(<<"login">>,
                 [method |-> "POST", authorization |-> "none", body |-> credentials])

\* fetch(`${FUSION_API_BASE}/devices`, { headers })
devicesRequest(token) ==
    fetchRequest(<<"devices">>,
                 [method |-> "undefined", authorization |-> token, body |-> <<>>])

\* fetch(`${FUSION_API_BASE}/apex/${fusionId}/status`, { headers }) of
\* discoverApexConfig
configRequest(token, fusionId) ==
    fetchRequest(<<"apex", fusionId, "status">>,
                 [method |-> "undefined", authorization |-> token, body |-> <<>>])

\* The mutant of C19: the sync posts to the status endpoint.
syncRequest_post(token, fusionId) ==
    fetchRequest(<<"apex", fusionId, "status">>,
                 [method |-> "POST", authorization |-> token, body |-> <<"sync">>])

\* fetch(`${FUSION_API_BASE}/apex/${fusionId}/status`, { headers }) of
\* syncApexReadings
syncRequest(token, fusionId) ==
    fetchRequest(<<"apex", fusionId, "status">>,
                 [method |-> "undefined", authorization |-> token, body |-> <<>>])

\* response.ok
ResponseOk(answer) == answer.status >= 200 /\ answer.status <= 299

\* The result of authenticateFusion, given the API's answer.
authenticateFusion(answer) ==
    IF answer.body = "rejected" THEN [ok |-> FALSE, error |-> "Failed to connect to Apex Fusion"]
    ELSE IF ~ResponseOk(answer)
         THEN IF answer.status = 401
              THEN [ok |-> FALSE, error |-> "Invalid Fusion credentials"]
              ELSE [ok |-> FALSE, error |-> "Fusion API error"]
    ELSE IF answer.body = "empty" THEN [ok |-> FALSE, error |-> "No token received from Fusion"]
    ELSE [ok |-> TRUE, error |-> ""]

\* The result of getFusionDevices, discoverApexConfig and syncApexReadings:
\* a missing field of the body is defaulted.
fusionRead(answer, failure) ==
    IF answer.body = "rejected" THEN [ok |-> FALSE, error |-> failure]
    ELSE IF ~ResponseOk(answer) THEN [ok |-> FALSE, error |-> "Fusion API error"]
    ELSE [ok |-> TRUE, error |-> ""]

\* The most requests the model lets the module send.
MaxFusionRequests == 3

InitFusion ==
    /\ fusionLog = <<>>
    /\ fusionResult = NoResult

\* One call of a function of the module sends one request.
FusionCall(request, result) ==
    /\ program = "fusion-client"
    /\ fusionLog' = Append(fusionLog, request)
    /\ fusionResult' = result
    /\ UNCHANGED <<classifierVars, generatorVars, simulatorVars, requestVars,
                   serverVars, desktopVars, accountVars>>

AuthenticateFusion ==
    /\ Len(fusionLog) < MaxFusionRequests
    /\ \E credentials \in FusionCredentials, answer \in FusionAnswers :
           FusionCall(loginRequest(credentials), authenticateFusion(answer))

GetFusionDevices ==
    /\ Len(fusionLog) < MaxFusionRequests
    /\ \E token \in FusionTokens, answer \in FusionAnswers :
           FusionCall(devicesRequest(token),
                      fusionRead(answer, "Failed to fetch devices from Fusion"))

DiscoverApexConfig ==
    /\ Len(fusionLog) < MaxFusionRequests
    /\ \E token \in FusionTokens, fusionId \in FusionIds, answer \in FusionAnswers :
           FusionCall(configRequest(token, fusionId),
                      fusionRead(answer, "Failed to discover Apex configuration"))

SyncApexReadings ==
    /\ Len(fusionLog) < MaxFusionRequests
    /\ \E token \in FusionTokens, fusionId \in FusionIds, answer \in FusionAnswers :
           FusionCall(syncRequest(token, fusionId),
                      fusionRead(answer, "Failed to sync Apex readings"))

(***************************************************************************)
(* Accounts: registration, login and the requireAuth middleware of         *)
(* auth-new.js over the users collection of firestore.js. Every await of   *)
(* the code that reaches the database is a step of its own, so that the    *)
(* calls of concurrent requests interleave as the event loop lets them.    *)
(***************************************************************************)

JWT_SECRET == "REPLACE_IN_PRODUCTION_WITH_SECURE_SECRET"

\* last_analysis_date is a day number, -1 for NULL
NoUsage == [daily_analyses |-> 0, last_analysis_date |-> -1]

NoFusion == [fusionId |-> "undefined", token |-> "undefined"]

AccountIdle ==
    /\ users = <<>>
    /\ calls = <<>>
    /\ usage = NoUsage
    /\ tankFusion = NoFusion
    /\ fusionIssued = "none"

\* What no function of the accounts modules touches.
AccountFrame ==
    UNCHANGED <<classifierVars, generatorVars, simulatorVars, requestVars,
                serverVars, desktopVars, fusionVars>>

\* String.prototype.toLowerCase on the addresses used here
toLowerCase(email) == IF email = "A@x.io" THEN "a@x.io" ELSE email

RegisterEmails == {"", "nope", "a@x.io", "A@x.io"}

LoginEmails == {"", "a@x.io", "A@x.io", "b@x.io"}

Passwords == {"", "short", "reefkeeper", "saltwater1"}

UserNames == {"", "Reef"}

\* /^[^\s@]+@[^\s@]+\.[^\s@]+$/.test(email)
EmailFormat(email) == email \in {"a@x.io", "A@x.io", "b@x.io"}

\* password.length
PasswordLength(password) ==
    CASE password = "" -> 0
      [] password = "short" -> 5
      [] OTHER -> 10

\* bcrypt.hash and bcrypt.compare: a hash matches the password it was
\* made from and no other.
bcryptHash(password) == <<"bcrypt", password>>

bcryptCompare(password, passwordHash) == passwordHash = <<"bcrypt", password>>

NoToken == [kind |-> "none", userId |-> 0, secret |-> "none", expired |-> FALSE]

\* jwt.sign({userId, email}, secret, {expiresIn})
jwtSign(userId, secret) ==
    [kind |-> "jwt", userId |-> userId, secret |-> secret, expired |-> FALSE]

\* jwt.verify(token, secret): "ok", or the name of the error it throws
jwtVerify(token, secret) ==
    CASE token.kind # "jwt" -> "JsonWebTokenError"
      [] token.secret # secret -> "JsonWebTokenError"
      [] token.expired -> "TokenExpiredError"
      [] OTHER -> "ok"

NoRecord == [id |-> 0, email |-> "", name |-> "", passwordHash |-> <<>>]

NoUser == [id |-> 0, email |-> "", name |-> ""]

\* const { passwordHash: _, ...userWithoutPassword } = user
userWithoutPassword(user) == [id |-> user.id, email |-> user.email, name |-> user.name]

\* getUserByEmail: the documents a query where('email', '==',
\* email.toLowerCase()).limit(1) may return, null as NoRecord. Firestore
\* orders by document id, so any match may be the one.
getUserByEmail(collection, email) ==
    LET matches == {k \in 1..Len(collection) :
                        collection[k].email = toLowerCase(email)}
    IN  IF matches = {} THEN {NoRecord} ELSE {collection[k] : k \in matches}

\* getUserById
getUserById(collection, userId) ==
    IF userId \in 1..Len(collection) THEN collection[userId] ELSE NoRecord

\* createUser: a document under a fresh id
createUser(collection, userData) ==
    Append(collection, [id |-> Len(collection) + 1,
                        email |-> userData.email,
                        name |-> userData.name,
                        passwordHash |-> userData.passwordHash])

Failed(error) == [ok |-> FALSE, error |-> error, user |-> NoUser, token |-> NoToken]

Succeeded(user, token) ==
    [ok |-> TRUE, error |-> "", user |-> userWithoutPassword(user), token |-> token]

NoHeader == [scheme |-> "none", token |-> NoToken]

\* The Authorization headers of the requests: none, another scheme, and
\* Bearer with no token, with text that is no JWT, with tokens of users 1
\* and 2, with an expired token and with one signed with another secret.
AuthorizationHeaders ==
    {[scheme |-> "undefined", token |-> NoToken], [scheme |-> "Basic", token |-> NoToken]}
    \cup {[scheme |-> "Bearer", token |-> t] :
            t \in {[kind |-> "empty", userId |-> 0, secret |-> "none", expired |-> FALSE],
                   [kind |-> "text", userId |-> 0, secret |-> "none", expired |-> FALSE],
                   jwtSign(1, JWT_SECRET), jwtSign(2, JWT_SECRET),
                   [jwtSign(1, JWT_SECRET) EXCEPT !.expired = TRUE],
                   jwtSign(1, "forged")}}

\* Whether a database request of a call succeeds or rejects.
DatabaseAnswers == {"ok", "error"}

MaxCalls == 2

NewCall(op, email, password, name, header, pc, result) ==
    [op |-> op, email |-> email, password |-> password, name |-> name,
     header |-> header, pc |-> pc, result |-> result, user |-> NoUser,
     nexts |-> 0, sends |-> 0, status |-> 0, threw |-> FALSE,
     allowed |-> FALSE, day |-> -1]

Return(call, result) == [call EXCEPT !.pc = "done", !.result = result]

\* The catch block of an async function: a database request rejected.
Catch(call, error) ==
    [call EXCEPT !.pc = "done", !.result = Failed(error), !.threw = TRUE]

\* res.status(status).json({ error })
Send(call, status, error) ==
    [call EXCEPT !.pc = "done", !.result = Failed(error),
                 !.sends = @ + 1, !.status = status]

Waiting(op, pc) == {c \in 1..Len(calls) : calls[c].op = op /\ calls[c].pc = pc}

\* The users collection a process finds at its start: empty, or with a
\* user registered earlier.
InitAccounts ==
    /\ users \in {<<>>, createUser(<<>>, [email |-> "a@x.io", name |-> "Reef",
                                          passwordHash |-> bcryptHash("reefkeeper")])}
    /\ calls = <<>>
    /\ usage = NoUsage
    /\ tankFusion = NoFusion
    /\ fusionIssued = "none"

\* registerUser, up to `await getUserByEmail(email)`
RegisterUser ==
    /\ program = "accounts"
    /\ Len(calls) < MaxCalls
    /\ \E email \in RegisterEmails, password \in Passwords, name \in UserNames :
          LET error ==
                  IF email = "" \/ password = "" \/ name = ""
                  THEN "Email, password, and name are required"
                  ELSE IF ~EmailFormat(email) THEN "Invalid email format"
                  ELSE IF PasswordLength(password) < 8
                       THEN "Password must be at least 8 characters"
                  ELSE ""
          IN  calls' = Append(calls,
                  NewCall("registerUser", email, password, name, NoHeader,
                          IF error = "" THEN "getUserByEmail" ELSE "done",
                          Failed(IF error = "" THEN "pending" ELSE error)))
    /\ UNCHANGED <<users, usage, tankFusion, fusionIssued>>
    /\ AccountFrame

\* registerUser, from the answer of getUserByEmail up to
\* `await createUser(userData)`
RegisterLookup ==
    /\ program = "accounts"
    /\ \E c \in Waiting("registerUser", "getUserByEmail"), answer \in DatabaseAnswers :
          \E existingUser \in getUserByEmail(users, calls[c].email) :
             calls' = [calls EXCEPT ![c] =
                 IF answer = "error" THEN Catch(@, "Registration failed")
                 ELSE IF existingUser # NoRecord
                      THEN Return(@, Failed("Email already registered"))
                 ELSE [@ EXCEPT !.pc = "createUser"]]
    /\ UNCHANGED <<users, usage, tankFusion, fusionIssued>>
    /\ AccountFrame

\* registerUser, from the write of createUser to the return
RegisterCreate ==
    /\ program = "accounts"
    /\ \E c \in Waiting("registerUser", "createUser"), answer \in DatabaseAnswers :
          LET userData == [email |-> toLowerCase(calls[c].email),
                           name |-> calls[c].name,
                           passwordHash |-> bcryptHash(calls[c].password)]
              created == createUser(users, userData)
              user == created[Len(created)]
          IN  IF answer = "error"
              THEN /\ calls' = [calls EXCEPT ![c] = Catch(@, "Registration failed")]
                   /\ UNCHANGED users
              ELSE /\ users' = created
                   /\ calls' = [calls EXCEPT ![c] =
                          Return([@ EXCEPT !.user = userWithoutPassword(user)],
                                 Succeeded(user, jwtSign(user.id, JWT_SECRET)))]
    /\ UNCHANGED <<usage, tankFusion, fusionIssued>>
    /\ AccountFrame

\* loginUser, up to `await getUserByEmail(email)`
LoginUser ==
    /\ program = "accounts"
    /\ Len(calls) < MaxCalls
    /\ \E email \in LoginEmails, password \in Passwords \ {"short"} :
          LET valid == email # "" /\ password # ""
          IN  calls' = Append(calls,
                  NewCall("loginUser", email, password, "", NoHeader,
                          IF valid THEN "getUserByEmail" ELSE "done",
                          Failed(IF valid THEN "pending"
                                 ELSE "Email and password are required")))
    /\ UNCHANGED <<users, usage, tankFusion, fusionIssued>>
    /\ AccountFrame

\* The mutant of C30: an address that is not registered is told so.
loginUserFound_revealing(call, user) ==
    IF user = NoRecord THEN Return(call, Failed("User not found"))
    ELSE IF ~bcryptCompare(call.password, user.passwordHash)
         THEN Return([call EXCEPT !.user = userWithoutPassword(user)],
                     Failed("Invalid email or password"))
    ELSE Return([call EXCEPT !.user = userWithoutPassword(user)],
                Succeeded(user, jwtSign(user.id, JWT_SECRET)))

\* loginUser after getUserByEmail answered with `user`: the two checks
\* and the token
loginUserFound(call, user) ==
    IF user = NoRecord THEN Return(call, Failed("Invalid email or password"))
    ELSE IF ~bcryptCompare(call.password, user.passwordHash)
         THEN Return([call EXCEPT !.user = userWithoutPassword(user)],
                     Failed("Invalid email or password"))
    ELSE Return([call EXCEPT !.user = userWithoutPassword(user)],
                Succeeded(user, jwtSign(user.id, JWT_SECRET)))

\* loginUser, from the answer of getUserByEmail to the return
LoginLookup ==
    /\ program = "accounts"
    /\ \E c \in Waiting("loginUser", "getUserByEmail"), answer \in DatabaseAnswers :
          \E user \in getUserByEmail(users, calls[c].email) :
             calls' = [calls EXCEPT ![c] =
                 IF answer = "error" THEN Catch(@, "Login failed")
                 ELSE loginUserFound(@, user)]
    /\ UNCHANGED <<users, usage, tankFusion, fusionIssued>>
    /\ AccountFrame

\* requireAuth with verifyToken, up to `await getUserById(decoded.userId)`
RequireAuth ==
    /\ program = "accounts"
    /\ Len(calls) < MaxCalls
    /\ \E header \in AuthorizationHeaders :
          LET call == NewCall("requireAuth", "", "", "", header,
                              "getUserById", Failed("pending"))
              verified == jwtVerify(header.token, JWT_SECRET)
          IN  calls' = Append(calls,
                  IF header.scheme # "Bearer"
                  THEN Send(call, 401, "Authorization token required")
                  ELSE IF header.token.kind = "empty"
                       THEN Send(call, 401, "Token required")
                  ELSE IF verified = "TokenExpiredError"
                       THEN Send(call, 401, "Token expired")
                  ELSE IF verified = "JsonWebTokenError"
                       THEN Send(call, 401, "Invalid token")
                  ELSE call)
    /\ UNCHANGED <<users, usage, tankFusion, fusionIssued>>
    /\ AccountFrame

\* The mutant of C29: the .then callback without its `return`.
requireAuthThen_fallthrough(call, result) ==
    IF ~result.ok
    THEN [Send(call, 401, result.error) EXCEPT !.user = result.user, !.nexts = @ + 1]
    ELSE [call EXCEPT !.pc = "done", !.result = result,
                      !.user = result.user, !.nexts = @ + 1]

\* The .then callback of requireAuth, after getUserById answered
requireAuthThen(call, result) ==
    IF ~result.ok THEN Send(call, 401, result.error)
    ELSE [call EXCEPT !.pc = "done", !.result = result,
                      !.user = result.user, !.nexts = @ + 1]

\* verifyToken from the answer of getUserById, and the .then callback
RequireAuthThen ==
    /\ program = "accounts"
    /\ \E c \in Waiting("requireAuth", "getUserById"), answer \in DatabaseAnswers :
          LET user == getUserById(users, calls[c].header.token.userId)
              result == IF answer = "error" THEN Failed("Token verification failed")
                        ELSE IF user = NoRecord THEN Failed("User not found")
                        ELSE Succeeded(user, NoToken)
          IN  calls' = [calls EXCEPT ![c] = requireAuthThen(@, result)]
    /\ UNCHANGED <<users, usage, tankFusion, fusionIssued>>
    /\ AccountFrame

(***************************************************************************)
(* The daily rate limit of the API-key module: checkRateLimit and          *)
(* incrementAnalysisCount over the user's row of the SQLite users table.   *)
(* Each of the two is one synchronous statement sequence; a request calls  *)
(* the first, awaits its analysis, and then calls the second.              *)
(***************************************************************************)

\* The limit passed to checkRateLimit.
DailyLimit == 2

\* How many requests of the user arrive.
MaxAnalyses == 3

\* new Date().toISOString().split('T')[0], as a day number
Today == now.d

\* The row a process finds: never used, or used on day 0 already.
InitRateLimit ==
    /\ users = <<>>
    /\ calls = <<>>
    /\ usage \in {NoUsage} \cup
                 {[daily_analyses |-> n, last_analysis_date |-> 0] : n \in 0..DailyLimit}
    /\ tankFusion = NoFusion
    /\ fusionIssued = "none"

\* checkRateLimit(userId, limit), the UPDATE of a new day included
checkRateLimit(user, today, limit) ==
    IF user.last_analysis_date # today
    THEN [allowed |-> TRUE, remaining |-> limit - 1,
          user |-> [daily_analyses |-> 0, last_analysis_date |-> today]]
    ELSE IF user.daily_analyses >= limit
         THEN [allowed |-> FALSE, remaining |-> 0, user |-> user]
    ELSE [allowed |-> TRUE, remaining |-> limit - user.daily_analyses - 1,
          user |-> user]

\* incrementAnalysisCount(userId)
incrementAnalysisCount(user) == [user EXCEPT !.daily_analyses = @ + 1]

\* A request arrives and calls checkRateLimit.
CheckRateLimit ==
    /\ program = "api-key-auth"
    /\ Len(calls) < MaxAnalyses
    /\ LET check == checkRateLimit(usage, Today, DailyLimit)
       IN  /\ usage' = check.user
           /\ calls' = Append(calls,
                  [NewCall("analysis", "", "", "", NoHeader,
                           IF check.allowed THEN "incrementAnalysisCount" ELSE "done",
                           Failed("pending"))
                     EXCEPT !.allowed = check.allowed, !.day = Today])
    /\ UNCHANGED <<users, tankFusion, fusionIssued>>
    /\ AccountFrame

\* An allowed request, its analysis done, calls incrementAnalysisCount.
IncrementAnalysisCount ==
    /\ program = "api-key-auth"
    /\ \E c \in Waiting("analysis", "incrementAnalysisCount") :
          /\ usage' = incrementAnalysisCount(usage)
          /\ calls' = [calls EXCEPT ![c].pc = "done"]
    /\ UNCHANGED <<users, tankFusion, fusionIssued>>
    /\ AccountFrame

\* The calendar day changes.
Midnight ==
    /\ program = "api-key-auth"
    /\ now.d < MaxClockDays
    /\ now' = [now EXCEPT !.d = @ + 1]
    /\ UNCHANGED <<program, days, allReadings, classifierVars, simulatorVars,
                   requestVars, serverVars, peripheralVars>>

(***************************************************************************)
(* The Apex routes of the production server: POST connect-apex stores the  *)
(* Fusion credentials on the tank document, GET sync reads them back. The  *)
(* process runs with DEMO_MODE false, which needs APEX_ENCRYPTION_KEY set, *)
(* and no tank was connected in demo mode before.                          *)
(***************************************************************************)

\* process.env.APEX_ENCRYPTION_KEY
ENCRYPTION_KEY == "key"

\* crypto.randomBytes(16)
InitializationVectors == {"iv1", "iv2"}

\* encrypt(text): the initialisation vector, a colon, and the ciphertext,
\* which key, vector and text determine.
encrypt(text, key, iv) == iv \o ":" \o key \o "(" \o text \o ")"

\* decrypt(encrypted): the text whose encryption under the key and the
\* leading vector this is; with another key, or on other input, no token.
decrypt(encrypted, key) ==
    LET plain == {t \in FusionTokens :
                     \E iv \in InitializationVectors : encrypt(t, key, iv) = encrypted}
    IN  IF plain = {} THEN "garbage" ELSE CHOOSE t \in plain : TRUE

\* req.body of connect-apex: with or without the Fusion credentials
ConnectBodies == FusionCredentials \cup {<<"", "">>}

MaxConnectRequests == 2

InitConnect ==
    /\ fusionLog = <<>>
    /\ fusionResult = NoResult
    /\ users = <<>>
    /\ calls = <<>>
    /\ usage = NoUsage
    /\ tankFusion = NoFusion
    /\ fusionIssued = "none"

\* What a request to an Apex route always does and leaves alone.
ConnectHandling ==
    /\ program = "server"
    /\ requests < MaxConnectRequests
    /\ requests' = requests + 1
    /\ query' = "none"
    /\ UNCHANGED <<now, program, days, allReadings, classifierVars,
                   simulatorVars, desktopVars, genAI, dbEvents, dbAnalyses,
                   users, calls, usage>>

\* app.post('/api/tanks/:tankId/connect-apex')
ConnectApex ==
    /\ ConnectHandling
    /\ \E header \in AuthHeaders, body \in ConnectBodies, token \in FusionTokens,
          fusionId \in FusionIds, iv \in InitializationVectors,
          login \in FusionAnswers, list \in FusionAnswers, status \in FusionAnswers :
          LET route == "POST /api/connect-apex"
              authResult == authenticateFusion(login)
              devicesResult == fusionRead(list, "Failed to fetch devices from Fusion")
              configResult == fusionRead(status, "Failed to discover Apex configuration")
              sent1 == Append(fusionLog, loginRequest(body))
              sent2 == Append(sent1, devicesRequest(token))
              sent3 == Append(sent2, configRequest(token, fusionId))
          IN  IF requireAuth(header) # 0
              THEN /\ response' = Response(route, requireAuth(header),
                                           ErrorBody("Authorization token required"))
                   /\ UNCHANGED <<fusionVars, tankFusion, fusionIssued>>
              ELSE IF body[1] = "" \/ body[2] = ""
              THEN /\ response' = Response(route, 400,
                                    ErrorBody("Fusion email and password are required"))
                   /\ UNCHANGED <<fusionVars, tankFusion, fusionIssued>>
              ELSE IF ~authResult.ok
              THEN /\ response' = Response(route, 401, ErrorBody(authResult.error))
                   /\ fusionLog' = sent1
                   /\ fusionResult' = authResult
                   /\ UNCHANGED <<tankFusion, fusionIssued>>
              ELSE IF ~devicesResult.ok \/ list.body = "empty"
              THEN /\ response' = Response(route, 404, ErrorBody("No Apex devices found"))
                   /\ fusionLog' = sent2
                   /\ fusionResult' = devicesResult
                   /\ fusionIssued' = token
                   /\ UNCHANGED tankFusion
              ELSE IF ~configResult.ok
              THEN /\ response' = Response(route, 500, ErrorBody(configResult.error))
                   /\ fusionLog' = sent3
                   /\ fusionResult' = configResult
                   /\ fusionIssued' = token
                   /\ UNCHANGED tankFusion
              ELSE IF ~dbTank
              THEN /\ response' = Response(route, 500, ErrorBody("Failed to connect Apex"))
                   /\ fusionLog' = sent3
                   /\ fusionResult' = configResult
                   /\ fusionIssued' = token
                   /\ UNCHANGED tankFusion
              ELSE /\ response' = Response(route, 200, ErrorBody(""))
                   /\ fusionLog' = sent3
                   /\ fusionResult' = configResult
                   /\ fusionIssued' = token
                   /\ tankFusion' = [fusionId |-> fusionId,
                                     token |-> encrypt(token, ENCRYPTION_KEY, iv)]
    /\ UNCHANGED <<dbTank, dbReadings>>

\* app.get('/api/tanks/:tankId/sync')
ServerSync ==
    /\ ConnectHandling
    /\ \E header \in AuthHeaders, answer \in FusionAnswers :
          LET route == "GET /api/sync"
              token == tankFusion.token
              fusionId == tankFusion.fusionId
              syncResult == fusionRead(answer, "Failed to sync Apex readings")
          IN  IF requireAuth(header) # 0
              THEN /\ response' = Response(route, requireAuth(header),
                                           ErrorBody("Authorization token required"))
                   /\ UNCHANGED <<fusionVars, dbReadings>>
              ELSE IF ~dbTank
              THEN /\ response' = Response(route, 404, ErrorBody("Tank not found"))
                   /\ UNCHANGED <<fusionVars, dbReadings>>
              ELSE IF token = "undefined"
              THEN /\ response' = Response(route, 400, ErrorBody("Apex not connected"))
                   /\ UNCHANGED <<fusionVars, dbReadings>>
              ELSE /\ fusionLog' = Append(fusionLog, syncRequest(token, fusionId))
                   /\ fusionResult' = syncResult
                   /\ IF ~syncResult.ok
                      THEN /\ response' = Response(route, 500, ErrorBody(syncResult.error))
                           /\ UNCHANGED dbReadings
                      ELSE /\ response' = Response(route, 200, ErrorBody(""))
                           /\ dbReadings' = Append(dbReadings,
                                  [source |-> "apex-probe", timestamp |-> now])
    /\ UNCHANGED <<dbTank, tankFusion, fusionIssued>>

(***************************************************************************)
(* Specifications.                                                         *)
(***************************************************************************)

InitSpecClassifier ==
    InitClassifier /\ GeneratorIdle /\ SimulatorIdle /\ ServerIdle /\ DesktopIdle /\ FusionIdle /\ AccountIdle

SpecClassifier == InitSpecClassifier /\ [][AssessParameter]_vars

\* The generators alone: the starts of the Apex simulator, and the first
\* request to a simulator API, which runs initializeSimulatorData.
NextGenerator ==
    \/ GenerateReadings
    \/ (simReadings = <<>> /\ GetTanks(Streams(NarrativeDraws, {1, 999})))

InitSpecGenerator ==
    ClassifierIdle /\ InitGenerator /\ SimulatorIdle /\ ServerIdle /\ DesktopIdle /\ FusionIdle /\ AccountIdle

SpecGenerator == InitSpecGenerator /\ [][NextGenerator]_vars

\* The simulator API serving requests.
NextSimulator ==
    \/ GetTanks(ConstantStreams)
    \/ GetReadings(ConstantStreams)
    \/ PostReadings(ConstantStreams)
    \/ GetEvents(ConstantStreams)
    \/ PostEvents
    \/ GetSync(ConstantStreams)
    \/ PostAnalyze
    \/ Tick

InitSpecSimulator ==
    ClassifierIdle /\ InitSimulator /\ ServerIdle /\ DesktopIdle /\ FusionIdle /\ AccountIdle

SpecSimulator == InitSpecSimulator /\ [][NextSimulator]_vars

\* The server serving its production routes.
NextServer ==
    \/ ServerPostTanks
    \/ ServerPostReadings
    \/ ServerPostEvents
    \/ ServerPostAnalyze
    \/ Tick

InitSpecServer ==
    /\ ClassifierIdle /\ InitServer /\ simReadings = <<>> /\ simEvents = <<>>
    /\ DesktopIdle /\ FusionIdle /\ AccountIdle

SpecServer == InitSpecServer /\ [][NextServer]_vars

\* The analyze routes of both programs, over stores the write routes fill.
NextAnalyze ==
    \/ GetTanks(ConstantStreams)
    \/ PostReadings(ConstantStreams)
    \/ PostEvents
    \/ PostAnalyze
    \/ ServerPostTanks
    \/ ServerPostReadings
    \/ ServerPostEvents
    \/ ServerPostAnalyze

InitSpecAnalyze ==
    /\ ClassifierIdle
    /\ now = [d |-> 0, ms |-> 0] /\ program \in {"simulator-api", "server"}
    /\ days = 0 /\ allReadings = <<>>
    /\ SimulatorIdle
    /\ genAI \in BOOLEAN /\ dbTank = FALSE
    /\ dbReadings = <<>> /\ dbEvents = <<>> /\ dbAnalyses = <<>>
    /\ DesktopIdle /\ FusionIdle /\ AccountIdle

SpecAnalyze == InitSpecAnalyze /\ [][NextAnalyze]_vars

\* Concurrent registrations, logins and authenticated requests.
NextAccounts ==
    \/ RegisterUser
    \/ RegisterLookup
    \/ RegisterCreate
    \/ LoginUser
    \/ LoginLookup
    \/ RequireAuth
    \/ RequireAuthThen

InitSpecAccounts ==
    /\ ClassifierIdle
    /\ now = [d |-> 0, ms |-> 0] /\ program = "accounts" /\ days = 0 /\ allReadings = <<>>
    /\ SimulatorIdle /\ ServerIdle
    /\ DesktopIdle /\ FusionIdle
    /\ InitAccounts

SpecAccounts == InitSpecAccounts /\ [][NextAccounts]_vars

\* Concurrent requests of one user under the daily rate limit.
NextRateLimit ==
    \/ CheckRateLimit
    \/ IncrementAnalysisCount
    \/ Midnight

InitSpecRateLimit ==
    /\ ClassifierIdle
    /\ now = [d |-> 0, ms |-> 0] /\ program = "api-key-auth" /\ days = 0 /\ allReadings = <<>>
    /\ SimulatorIdle /\ ServerIdle
    /\ DesktopIdle /\ FusionIdle
    /\ InitRateLimit

SpecRateLimit == InitSpecRateLimit /\ [][NextRateLimit]_vars

\* The Apex routes of the production server, on a tank that may exist.
NextConnect ==
    \/ ConnectApex
    \/ ServerSync

InitSpecConnect ==
    /\ ClassifierIdle
    /\ now = [d |-> 0, ms |-> 0] /\ program = "server" /\ days = 0 /\ allReadings = <<>>
    /\ SimulatorIdle
    /\ genAI = FALSE /\ dbTank \in BOOLEAN
    /\ dbReadings = <<>> /\ dbEvents = <<>> /\ dbAnalyses = <<>>
    /\ DesktopIdle
    /\ InitConnect

SpecConnect == InitSpecConnect /\ [][NextConnect]_vars

\* The desktop app from launch on.
NextDesktop ==
    \/ WhenReady
    \/ ServerListening
    \/ ServerStarted
    \/ Activate
    \/ TrayClick
    \/ ShowWindow
    \/ SecondInstance
    \/ WindowClosed
    \/ ReadyToShow
    \/ ViewDashboard
    \/ ChangeDataSource
    \/ UpdateSettings
    \/ Quit

InitSpecDesktop ==
    /\ ClassifierIdle
    /\ now = [d |-> 0, ms |-> 0] /\ program = "desktop" /\ days = 0 /\ allReadings = <<>>
    /\ SimulatorIdle /\ ServerIdle
    /\ InitDesktop /\ FusionIdle /\ AccountIdle

SpecDesktop == InitSpecDesktop /\ [][NextDesktop]_vars

\* The Apex Fusion client, called in any order.
NextFusion ==
    \/ AuthenticateFusion
    \/ GetFusionDevices
    \/ DiscoverApexConfig
    \/ SyncApexReadings

InitSpecFusion ==
    /\ ClassifierIdle
    /\ now = [d |-> 0, ms |-> 0] /\ program = "fusion-client" /\ days = 0
    /\ allReadings = <<>>
    /\ SimulatorIdle /\ ServerIdle /\ DesktopIdle
    /\ InitFusion /\ AccountIdle

SpecFusion == InitSpecFusion /\ [][NextFusion]_vars

(***************************************************************************)
(* Properties of the classifier (under SpecClassifier).                    *)
(***************************************************************************)

Assessed == tier # "pending"

Registered == param \in DOMAIN RangeTable(table)

Entry == RangeTable(table)[param]

Within(band) == band[1] <= value /\ value <= band[2]

\* C1: for a registered parameter, assessParameter returns exactly one
\* tier: "optimal" exactly for values in the optimal band, "watch" exactly
\* for values in the watch band outside the optimal band, "critical"
\* exactly for values in the critical band outside the two others, and
\* "danger" exactly for values outside all three bands.
C1_InnermostBand ==
    (Assessed /\ Registered) =>
        /\ tier \in {"optimal", "watch", "critical", "danger"}
        /\ tier = "optimal" <=> Within(Entry.optimal)
        /\ tier = "watch" <=> (Within(Entry.watch) /\ ~Within(Entry.optimal))
        /\ tier = "critical" <=>
              (Within(Entry.critical) /\ ~Within(Entry.watch) /\ ~Within(Entry.optimal))
        /\ tier = "danger" <=>
              (~Within(Entry.critical) /\ ~Within(Entry.watch) /\ ~Within(Entry.optimal))

C1_Witness ==
    /\ Assessed /\ Registered
    /\ tier = "watch"
    /\ Within(Entry.critical) /\ ~Within(Entry.optimal)

\* C2: a value exactly at an endpoint of a band is classified into that
\* band, unless a narrower band contains it, and then into the narrower
\* one: an optimal endpoint is "optimal", a watch endpoint "watch", a
\* critical endpoint "critical".
C2_EndpointsInclusive ==
    (Assessed /\ Registered) =>
        /\ value \in {Entry.optimal[1], Entry.optimal[2]} => tier = "optimal"
        /\ (value \in {Entry.watch[1], Entry.watch[2]} /\ ~Within(Entry.optimal))
              => tier = "watch"
        /\ (value \in {Entry.critical[1], Entry.critical[2]}
              /\ ~Within(Entry.watch) /\ ~Within(Entry.optimal))
              => tier = "critical"

C2_Witness ==
    /\ Assessed /\ Registered
    /\ value = Entry.watch[1]
    /\ tier = "watch"

\* C3: for a name that is no key of the range table, assessParameter
\* returns "unknown" and raises no error.
C3_UnregisteredIsUnknown == (Assessed /\ ~Registered) => tier = "unknown"

\* C4: with each module's alk bands, 8.5 is "optimal", 6.5 is "critical"
\* and 13.0 is "danger".
C4_AlkScenario ==
    (Assessed /\ param = "alk") =>
        /\ value = 8500 => tier = "optimal"
        /\ value = 6500 => tier = "critical"
        /\ value = 13000 => tier = "danger"

\* C5: every entry of every range table is nested: critical.low <=
\* watch.low <= optimal.low <= optimal.high <= watch.high <= critical.high.
C5_BandsNested ==
    Registered =>
        /\ Entry.critical[1] <= Entry.watch[1]
        /\ Entry.watch[1] <= Entry.optimal[1]
        /\ Entry.optimal[1] <= Entry.optimal[2]
        /\ Entry.optimal[2] <= Entry.watch[2]
        /\ Entry.watch[2] <= Entry.critical[2]

C5_Witness ==
    /\ Assessed /\ Registered
    /\ table = "library" /\ param = "alk"
    /\ value = Entry.watch[1]

(***************************************************************************)
(* Properties of the generators (under SpecGenerator).                     *)
(***************************************************************************)

\* C6: the generators return exactly one day's readings per day of the
\* window: 6 * days readings from generateReadings(days) at its six
\* readings per day (none for days = 0), and 30 readings in the 30-day
\* narrative of initializeSimulatorData.
C6_WindowDaysReadings ==
    /\ \A run \in 1..Len(allReadings) : Len(allReadings[run]) = 6 * days
    /\ simReadings # <<>> => Len(simReadings) = 30

Increasing(readings) ==
    \A k \in 1..(Len(readings) - 1) :
        \/ readings[k].timestamp.d < readings[k + 1].timestamp.d
        \/ /\ readings[k].timestamp.d = readings[k + 1].timestamp.d
           /\ readings[k].timestamp.ms < readings[k + 1].timestamp.ms

\* C7: what generateReadings and initializeSimulatorData produce is
\* oldest first: each reading's timestamp is strictly less than the next
\* one's.
C7_OldestFirst ==
    /\ \A run \in 1..Len(allReadings) : Increasing(allReadings[run])
    /\ Increasing(simReadings)

C7_Witness ==
    /\ Len(allReadings) = 2
    /\ days > 0
    /\ now.ms > 0

\* C8: two runs of generateReadings with the same argument, at the same
\* clock reading, produce the same readings.
C8_Deterministic == Len(allReadings) = 2 => allReadings[1] = allReadings[2]

(***************************************************************************)
(* Properties of the analyze routes.                                       *)
(***************************************************************************)

\* C9 (under SpecServer): an authenticated analyze request for an existing
\* tank that has no readings is answered normally, with a diagnosis marked
\* "insufficient-data", never with an error response.
C9_EmptyWindowInsufficientData ==
    (/\ response.route = "POST /api/analyze"
     /\ response.status # 401
     /\ dbTank
     /\ dbReadings = <<>>)
        => /\ response.status = 200
           /\ response.body.analysis.summary = "insufficient-data"

ChemistryKeys == {"alk", "ca", "mg", "ph", "temp", "orp"}

\* The range-table key of a reading's field: the readings spell pH "ph".
RangeKey(k) == IF k = "ph" THEN "pH" ELSE k

AllOptimal(reading) ==
    \A k \in ChemistryKeys :
        LET band == PARAM_RANGES[RangeKey(k)].optimal
        IN  band[1] <= ToThousandths(reading[k]) /\ ToThousandths(reading[k]) <= band[2]

\* The findings of an analyze response: the analysis is one diagnosis.
Findings(body) == <<body.analysis>>

\* C10 (under SpecSimulator): when the store holds no event and every
\* parameter of the current (newest) reading is within its optimal band,
\* the analyze response carries exactly one finding, and it is
\* informational.
C10_AllOptimalOneInformational ==
    (/\ response.route = "POST /analyze"
     /\ simEvents = <<>>
     /\ simReadings # <<>>
     /\ AllOptimal(Head(SortDesc(simReadings))))
        => /\ Len(Findings(response.body)) = 1
           /\ Findings(response.body)[1].severity = "informational"

\* C11 (under SpecSimulator): the diagnosis of every analyze response
\* carries a confidence c with 0 <= c <= 1.
C11_ConfidenceInUnitInterval ==
    response.route = "POST /analyze" =>
        /\ 0 <= response.body.analysis.confidence
        /\ response.body.analysis.confidence <= 1

\* The reading of day 27 of the narrative, three days before the start:
\* days 0 to 30 are stored oldest first.
Day27Reading == simReadings[28]

\* C12 (under SpecGenerator): whatever the noise, the alkalinity of the
\* narrative's day-27 reading is classified "critical" or "danger".
C12_Day27AlkCritical ==
    Len(simReadings) = 31 =>
        assessParameter("firestore", "alk", ToThousandths(Day27Reading.alk))
            \in {"critical", "danger"}

NotAfter(a, b) == a.d < b.d \/ (a.d = b.d /\ a.ms <= b.ms)

OldestFirst(readings) ==
    \A k \in 1..(Len(readings) - 1) :
        NotAfter(readings[k].timestamp, readings[k + 1].timestamp)

NewestFirst(readings) ==
    \A k \in 1..(Len(readings) - 1) :
        NotAfter(readings[k + 1].timestamp, readings[k].timestamp)

\* C13 (under SpecSimulator): after any sequence of requests the stored
\* readings are ordered by timestamp in one direction: no reading is out
\* of order with its neighbours.
C13_StoreTimeOrdered == OldestFirst(simReadings) \/ NewestFirst(simReadings)

\* C14 (under SpecSimulator): an event recorded in the log is in the log,
\* unchanged, after every later step.
C14_EventsImmutable ==
    [][\A k \in 1..Len(simEvents) :
          \E j \in 1..Len(simEvents') : simEvents'[j] = simEvents[k]]_vars

\* C15 (under SpecSimulator): whatever the requests before it, GET /events
\* serves the six pre-loaded events and GET /readings serves readings of
\* the pre-loaded history, which are older than the process.
C15_PreloadedDataServed ==
    /\ response.route = "GET /events" =>
          \A n \in 1..6 :
              \E k \in 1..Len(response.body) : response.body[k].id = LiteralId(n)
    /\ response.route = "GET /readings" =>
          \E k \in 1..Len(response.body) : response.body[k].timestamp.d < 0

(***************************************************************************)
(* Properties of the desktop app (under SpecDesktop).                      *)
(***************************************************************************)

\* C16: at most one main window exists at any time.
C16_SingleWindow == Cardinality(openWindows) <= 1

\* C17: once the tray exists, the source selected in the tray,
\* settings.dataSource and the mode the embedded server runs in agree,
\* also after every change of the data source.
C17_DataSourceAgrees ==
    tray.created =>
        /\ tray.dataSource = settings.dataSource
        /\ serverMode = (IF settings.dataSource = "simulator"
                         THEN "simulator" ELSE "production")

\* C18: the status of the tray is green, yellow or red, from start-up on.
C18_TrayStatusIsColour == tray.created => tray.status \in {"green", "yellow", "red"}

(***************************************************************************)
(* Properties of the Apex Fusion client (under SpecFusion).                *)
(***************************************************************************)

\* The endpoints that address the devices: /devices and /apex/<id>/...
DeviceEndpoint(path) == path[1] \in {"devices", "apex"}

\* C19: every request sent to a device endpoint is a read: a GET without
\* a body.
C19_FusionReadOnly ==
    \A k \in 1..Len(fusionLog) :
        DeviceEndpoint(fusionLog[k].path) =>
            /\ fusionLog[k].method = "GET"
            /\ fusionLog[k].body = <<>>

C19_Witness ==
    /\ Len(fusionLog) = 3
    /\ fusionLog[1].path = <<"login">>
    /\ fusionLog[2].path = <<"devices">>
    /\ fusionLog[3].path = <<"apex", "apex-1", "status">>
    /\ fusionResult.ok

(***************************************************************************)
(* The noise of the generators (under SpecGenerator).                      *)
(***************************************************************************)

Deviation(x, target) == IF x >= target THEN x - target ELSE target - x

\* The noise-free targets of the narrative reading i days before the start.
NarrativeTarget(i) ==
    [alk |-> alkValue(i), ca |-> caValue(i), mg |-> 1350 * Unit,
     ph |-> 825 * Hundredth, temp |-> 778 * Tenth, orp |-> 325 * Unit]

\* The amplitudes of initializeSimulatorData and the steps of its rounding.
NarrativeAmplitude ==
    [alk |-> 8 * Hundredth, ca |-> 3 * Unit, mg |-> 8 * Unit,
     ph |-> 15 * Hundredth, temp |-> 6 * Tenth, orp |-> 10 * Unit]

NarrativeStep ==
    [alk |-> Hundredth, ca |-> Unit, mg |-> Unit,
     ph |-> Hundredth, temp |-> Tenth, orp |-> Unit]

\* The values and amounts generateReadings passes to jitter for day d,
\* slot r.
ApexTarget(d, r) ==
    [alk |-> alkBase(d), ca |-> caBase(d), mg |-> 1350 * Unit,
     ph |-> 832 * Hundredth + SinTerm(r), temp |-> 778 * Tenth,
     no3 |-> IF d > 15 THEN 5 * Unit ELSE 5 * Unit + (15 - d) * 6 * Tenth,
     po4 |-> IF d > 15 THEN 4 * Hundredth ELSE 4 * Hundredth + (15 - d) * 5 * Thousandth]

ApexAmount ==
    [alk |-> 8 * Hundredth, ca |-> 2 * Unit, mg |-> 5 * Unit, ph |-> 2 * Hundredth,
     temp |-> 3 * Tenth, no3 |-> 3 * Tenth, po4 |-> 5 * Thousandth]

\* Every emitted value is within its amplitude plus `slack` rounding steps
\* (in halves) of its target.
NoiseWithin(halfSteps) ==
    /\ Len(simReadings) = 31 =>
          \A k \in 1..31 : \A f \in DOMAIN NarrativeAmplitude :
              2 * Deviation(simReadings[k][f], NarrativeTarget(31 - k)[f])
                  <= 2 * NarrativeAmplitude[f] + halfSteps * NarrativeStep[f]
    /\ \A run \in 1..Len(allReadings) :
          \A k \in 1..Len(allReadings[run]) : \A f \in DOMAIN ApexAmount :
              2 * Deviation(allReadings[run][k][f],
                            ApexTarget(days - ((k - 1) \div 6), (k - 1) % 6)[f])
                  <= 2 * ApexAmount[f] + halfSteps * Hundredth

\* C20, as stated: every value the generators emit is within the
\* configured amplitude of its noise-free target, after rounding.
C20_NoiseWithinAmplitude == NoiseWithin(0)

\* C20, amended: every value the generators emit is within the configured
\* amplitude plus half a rounding step of its noise-free target.
C20_NoiseWithinAmplitudeAndRounding == NoiseWithin(1)

C20_Witness ==
    /\ Len(simReadings) = 31
    /\ \E k \in 1..31 :
          Deviation(simReadings[k].alk, NarrativeTarget(31 - k).alk) > NarrativeAmplitude.alk

(***************************************************************************)
(* Properties of the simulator API's read and analyze routes.              *)
(***************************************************************************)

\* The N of ?days=N; 30 when the parameter is omitted.
RequestedDays(q) ==
    CASE q = "7" -> 7
      [] q = "0" -> 0
      [] OTHER -> 30

\* The indices of the stored readings at or after `cutoff`.
InWindow(readings, cutoff) ==
    {k \in 1..Len(readings) :
        \/ cutoff.d < readings[k].timestamp.d
        \/ /\ cutoff.d = readings[k].timestamp.d
           /\ cutoff.ms <= readings[k].timestamp.ms}

\* `body` is exactly the readings of the store at or after cutoff, newest
\* first.
ExactlyWindow(body, readings, cutoff) ==
    /\ Len(body) = Cardinality(InWindow(readings, cutoff))
    /\ \A k \in InWindow(readings, cutoff) : \E j \in 1..Len(body) : body[j] = readings[k]
    /\ NewestFirst(body)

\* C21 (under SpecSimulator): GET /readings?days=N answers with exactly
\* the stored readings at or after now minus N days (N = 30 when omitted),
\* newest first, and leaves the store as it was.
C21_ReadingsWindow ==
    [][(requests' = requests + 1 /\ response'.route = "GET /readings") =>
          /\ \E t \in {now, [d |-> now.d, ms |-> now.ms + 1]} :
                ExactlyWindow(response'.body, simReadings,
                              [d |-> t.d - RequestedDays(query'), ms |-> t.ms])
          /\ simReadings' = simReadings
          /\ simEvents' = simEvents]_vars

\* C22 (under SpecAnalyze): an analyze request, to the simulator route or
\* to the production route, leaves the stored readings and the stored
\* events as they were.
C22_AnalyzeKeepsStores ==
    [][(requests' = requests + 1
          /\ response'.route \in {"POST /analyze", "POST /api/analyze"}) =>
          /\ simReadings' = simReadings
          /\ simEvents' = simEvents
          /\ dbReadings' = dbReadings
          /\ dbEvents' = dbEvents]_vars

C22_Witness ==
    /\ response.route = "POST /api/analyze"
    /\ response.status = 200
    /\ dbReadings # <<>>
    /\ Len(dbAnalyses) = 1

\* C23 (under SpecDesktop): createWindow runs only when the embedded
\* server is listening on its port.
C23_WindowAfterListening ==
    [][windowsCreated' > windowsCreated => listening = "yes"]_vars

(***************************************************************************)
(* Claims about the accounts.                                              *)
(***************************************************************************)

Finished(op) == {c \in 1..Len(calls) : calls[c].op = op /\ calls[c].pc = "done"}

\* C24 (under SpecAccounts): whatever the interleaving of registerUser
\* calls, no two user records hold the same address and no two calls for
\* the same address, compared without case, return ok: true.
C24_EmailUnique ==
    /\ \A j, k \in 1..Len(users) : users[j].email = users[k].email => j = k
    /\ \A c, d \in Finished("registerUser") :
          (/\ calls[c].result.ok
           /\ calls[d].result.ok
           /\ toLowerCase(calls[c].email) = toLowerCase(calls[d].email)) => c = d

AllowedOn(day) ==
    {c \in 1..Len(calls) :
        calls[c].op = "analysis" /\ calls[c].allowed /\ calls[c].day = day}

\* C25 (under SpecRateLimit): on no calendar day are more requests allowed
\* than the limit, and a check on a new day leaves the row on that day.
C25_DailyLimit ==
    /\ \A day \in 0..MaxClockDays : Cardinality(AllowedOn(day)) <= DailyLimit
    /\ calls # <<>> => usage.last_analysis_date = calls[Len(calls)].day

(***************************************************************************)
(* Claims about identifiers, stored credentials and parameter keys.        *)
(***************************************************************************)

DistinctIds(items) ==
    \A j, k \in 1..Len(items) : items[j].id = items[k].id => j = k

\* C26 (under SpecSimulator): no two stored readings share an id and no
\* two stored events share an id.
C26_IdsUnique == DistinctIds(simReadings) /\ DistinctIds(simEvents)

\* C28 (under SpecSimulator): every chemistry key of a stored simulator
\* reading is a key of the range table, and assessParameter does not
\* answer "unknown" for it.
C28_ChemistryKeysRegistered ==
    \A j \in 1..Len(simReadings) : \A k \in ChemistryKeys :
        /\ k \in DOMAIN PARAM_RANGES
        /\ assessParameter("firestore", k, ToThousandths(simReadings[j][k])) # "unknown"

\* C27 (under SpecConnect): the token a sync request carries to the Fusion
\* API is the token authenticateFusion issued when the tank was connected.
C27_TokenRoundTrip ==
    (response.route = "GET /api/sync" /\ response.status \in {200, 500}
       /\ response.body # ErrorBody("Failed to sync data")) =>
        fusionLog[Len(fusionLog)].authorization = decrypt(tankFusion.token, ENCRYPTION_KEY)

(***************************************************************************)
(* Claims about requireAuth and loginUser.                                 *)
(***************************************************************************)

\* C29 (under SpecAccounts): a request through requireAuth gets next()
\* once, with req.user the user of its token, or one error response with
\* status 401 or 500, never both; next() is called only for a Bearer token
\* that verifies and names an existing user.
C29_HandledOnce ==
    \A c \in 1..Len(calls) :
        LET call == calls[c]
            token == call.header.token
        IN  call.op = "requireAuth" =>
              /\ call.nexts + call.sends <= 1
              /\ call.pc = "done" => call.nexts + call.sends = 1
              /\ call.sends = 1 => call.status \in {401, 500}
              /\ call.nexts = 1 =>
                    /\ call.header.scheme = "Bearer"
                    /\ jwtVerify(token, JWT_SECRET) = "ok"
                    /\ getUserById(users, token.userId) # NoRecord
                    /\ call.user = userWithoutPassword(getUserById(users, token.userId))

C29_Witness ==
    \E c, d \in Finished("requireAuth") :
        /\ calls[c].nexts = 1
        /\ calls[d].sends = 1 /\ calls[d].result.error = "User not found"

\* A login that ran both checks on an address no user holds.
Unregistered(c) ==
    /\ c \in Finished("loginUser")
    /\ ~calls[c].threw
    /\ calls[c].email # "" /\ calls[c].password # ""
    /\ calls[c].user = NoUser

\* A login that found the user and was given another password.
WrongPassword(c) ==
    /\ c \in Finished("loginUser")
    /\ ~calls[c].threw
    /\ calls[c].user # NoUser
    /\ ~bcryptCompare(calls[c].password,
                      getUserById(users, calls[c].user.id).passwordHash)

====
